---------------------------- MODULE Spec2Model ----------------------------
(***************************************************************************)
(* TaxTime document pipeline: OCR providers, document type detection,      *)
(* form parsers, field post-processing and batch parsing.                  *)
(*                                                                         *)
(* Confidences are exact decimals in the source range 0..1 with at most    *)
(* four decimals; they are kept here as integers in units of 1/10000       *)
(* (0.8 is 8000).  None of the thresholds the code compares against is hit *)
(* by a rounding error of the floating point evaluation, so the exact      *)
(* arithmetic takes the same branches.                                     *)
(***************************************************************************)
EXTENDS Integers, Sequences, FiniteSets, TLC

VARIABLES
    clsPc,        \* detectDocumentType call: "off" | "input" | "done"
    clsInput,     \* its arguments: the filename and content match counts
    clsResult,    \* the { type, confidence } it returned
    docPc,        \* parseDocument call: "off" | "input" | "done"
    docInput,     \* its arguments and what its awaited extractText settles with
    docResult,    \* how its promise settled
    hasWindow,    \* typeof window !== 'undefined'
    provider,     \* the service's ocrProvider: "mock" | "tesseract" | "hybrid"
    fallbackProvider, \* HybridOCRProvider.fallbackProvider: "none" | "aws"
    worker,       \* TesseractOCRProvider.worker: "null" | "worker"
    creations,    \* workers created by extractText calls since the last terminate
    term,         \* terminate(): "idle" | "awaiting" | "returned"
    initCall,     \* initialize() called from outside: "idle" | "creating"
    files,        \* the batch handed to parseMultipleDocuments
    tasks,        \* its parseDocument calls
    batch,        \* the parseMultipleDocuments call and how it settled
    documents,    \* MockTaxProcessingService.documents
    uploadedFiles, \* MockTaxProcessingService.uploadedFiles: id -> file
    extractions,  \* MockTaxProcessingService.extractions
    proc,         \* the processDocuments call and how it settled
    adjPc,        \* the adjustment applied last to a W-2's fields
    adjFields,    \* the fields after it
    adjEnv,       \* the fields as created, the detection and the recognition
    fieldCall     \* one match of a field pattern and the field made of it

varsCls == <<clsPc, clsInput, clsResult>>
varsDoc == <<docPc, docInput, docResult>>
varsSys == <<hasWindow, provider, fallbackProvider, worker, creations, term, initCall,
             files, tasks, batch>>

varsSvc == <<documents, uploadedFiles, extractions, proc>>
varsAdj == <<adjPc, adjFields, adjEnv>>
varsFld == <<fieldCall>>

vars == <<clsPc, clsInput, clsResult, docPc, docInput, docResult,
          hasWindow, provider, fallbackProvider, worker, creations, term, initCall,
          files, tasks, batch, documents, uploadedFiles, extractions, proc,
          adjPc, adjFields, adjEnv, fieldCall>>

One == 100 * 100

Min(a, b) == IF a < b THEN a ELSE b
Max(a, b) == IF a > b THEN a ELSE b

(***************************************************************************)
(* Document type detection                                                 *)
(***************************************************************************)

\* The table: per type the number of filename and content patterns and the
\* pattern base confidence.
documentTypePatterns ==
    << [type |-> "W2",       filename |-> 2, content |-> 3, confidence |-> 9000],
       [type |-> "1099_INT", filename |-> 2, content |-> 3, confidence |-> 8500],
       [type |-> "1099_DIV", filename |-> 2, content |-> 3, confidence |-> 8500],
       [type |-> "1099_NEC", filename |-> 2, content |-> 2, confidence |-> 8500],
       [type |-> "1098_E",   filename |-> 2, content |-> 2, confidence |-> 8000] >>

NumCandidates == Len(documentTypePatterns)

FilenameWeight == 4000
ContentWeight == 6000
DetectionFloor == 3000
UnknownConfidence == 1000

\* A filename is seen by the detector only through the number of filename
\* patterns of each table entry that test true on it (file.name[i]), a text
\* through the number of content patterns that do (text.content[i]).
FilenameProfiles ==
    {f \in [1..NumCandidates -> 0..2] :
        \A i \in 1..NumCandidates : f[i] <= documentTypePatterns[i].filename}

ContentProfiles ==
    {c \in [1..NumCandidates -> 0..3] :
        \A i \in 1..NumCandidates : c[i] <= documentTypePatterns[i].content}

NoMatch == [i \in 1..NumCandidates |-> 0]

\* The loop body without the cap of Math.min.
CandidateConfidenceUncapped(i, filename, text) ==
    LET matches == filename[i] + text.content[i]
        confidence == FilenameWeight * filename[i] + ContentWeight * text.content[i]
    IN IF matches > 0
         THEN (confidence * documentTypePatterns[i].confidence) \div One
         ELSE 0

\* The confidence the loop body computes for table entry i (0 when none of
\* its patterns matches).
CandidateConfidence(i, filename, text) ==
    LET matches == filename[i] + text.content[i]
        confidence == FilenameWeight * filename[i] + ContentWeight * text.content[i]
    IN IF matches > 0
         THEN (Min(One, confidence) * documentTypePatterns[i].confidence) \div One
         ELSE 0

\* The for-loop with >= in place of >: the last of equal candidates is kept.
RECURSIVE BestMatchFromLastWins(_, _, _, _)
BestMatchFromLastWins(i, filename, text, bestMatch) ==
    IF i > NumCandidates THEN bestMatch
    ELSE LET matches == filename[i] + text.content[i]
             confidence == CandidateConfidence(i, filename, text)
         IN IF matches > 0 /\ confidence >= bestMatch.confidence
              THEN BestMatchFromLastWins(i + 1, filename, text,
                       [type |-> documentTypePatterns[i].type, confidence |-> confidence])
              ELSE BestMatchFromLastWins(i + 1, filename, text, bestMatch)

\* The for-loop over the table with its running bestMatch.
RECURSIVE BestMatchFrom(_, _, _, _)
BestMatchFrom(i, filename, text, bestMatch) ==
    IF i > NumCandidates THEN bestMatch
    ELSE LET matches == filename[i] + text.content[i]
             confidence == CandidateConfidence(i, filename, text)
         IN IF matches > 0 /\ confidence > bestMatch.confidence
              THEN BestMatchFrom(i + 1, filename, text,
                       [type |-> documentTypePatterns[i].type, confidence |-> confidence])
              ELSE BestMatchFrom(i + 1, filename, text, bestMatch)

\* The detector without its floor.
detectDocumentTypeWithoutFloor(filename, text) ==
    BestMatchFrom(1, filename, text, [type |-> "UNKNOWN", confidence |-> 0])

detectDocumentType(filename, text) ==
    LET bestMatch == BestMatchFrom(1, filename, text, [type |-> "UNKNOWN", confidence |-> 0])
    IN IF bestMatch.confidence < DetectionFloor
         THEN [type |-> "UNKNOWN", confidence |-> UnknownConfidence]
         ELSE bestMatch

(***************************************************************************)
(* Strings that the code parses are sequences of one-character strings.    *)
(***************************************************************************)

Digits == {"0", "1", "2", "3", "4", "5", "6", "7", "8", "9"}

Whitespace == {" ", "\t", "\n", "\r"}

DigitValue ==
    "0" :> 0 @@ "1" :> 1 @@ "2" :> 2 @@ "3" :> 3 @@ "4" :> 4 @@
    "5" :> 5 @@ "6" :> 6 @@ "7" :> 7 @@ "8" :> 8 @@ "9" :> 9

\* String.prototype.replace(/[...]/g, ''): drop every character of a class.
RemoveChars(s, class) == SelectSeq(s, LAMBDA ch : ch \notin class)

\* String.prototype.replace(/\D/g, '').
RemoveNonDigits(s) == SelectSeq(s, LAMBDA ch : ch \in Digits)

RECURSIVE DigitPrefix(_)
DigitPrefix(s) ==
    IF s # <<>> /\ Head(s) \in Digits THEN <<Head(s)>> \o DigitPrefix(Tail(s)) ELSE <<>>

RECURSIVE DropLeading(_, _)
DropLeading(s, class) ==
    IF s # <<>> /\ Head(s) \in class THEN DropLeading(Tail(s), class) ELSE s

RECURSIVE DropTrailing(_, _)
DropTrailing(s, class) ==
    IF s # <<>> /\ s[Len(s)] \in class
      THEN DropTrailing(SubSeq(s, 1, Len(s) - 1), class) ELSE s

\* String.prototype.trim().
Trim(s) == DropTrailing(DropLeading(s, Whitespace), Whitespace)

RECURSIVE DigitsToNat(_, _)
DigitsToNat(s, acc) ==
    IF s = <<>> THEN acc ELSE DigitsToNat(Tail(s), 10 * acc + DigitValue[Head(s)])

\* Numbers are kept in hundredths; NaN is its own value.
NaN == [nan |-> TRUE, cents |-> 0]
Number(c) == [nan |-> FALSE, cents |-> c]

\* parseFloat: leading whitespace, an optional sign, digits, an optional
\* fraction; NaN when no digit is found.  (Exponents and "Infinity" are not
\* modelled; fractions are read to two places.)
FloatOfParts(negative, whole, frac) ==
    IF whole = <<>> /\ frac = <<>> THEN NaN
    ELSE Number((IF negative THEN 0 - 1 ELSE 1)
                * (100 * DigitsToNat(whole, 0)
                   + DigitsToNat(SubSeq(frac \o <<"0", "0">>, 1, 2), 0)))

FractionDigits(rest) ==
    IF rest # <<>> /\ Head(rest) = "." THEN DigitPrefix(Tail(rest)) ELSE <<>>

FloatOfWhole(negative, whole, body) ==
    FloatOfParts(negative, whole, FractionDigits(SubSeq(body, Len(whole) + 1, Len(body))))

FloatOfBody(negative, body) == FloatOfWhole(negative, DigitPrefix(body), body)

FloatOfTrimmed(t) ==
    IF t # <<>> /\ Head(t) \in {"-", "+"}
      THEN FloatOfBody(Head(t) = "-", Tail(t))
      ELSE FloatOfBody(FALSE, t)

parseFloat(s) == FloatOfTrimmed(DropLeading(s, Whitespace))

(***************************************************************************)
(* ExtractedField values                                                   *)
(***************************************************************************)

Null == [t |-> "null", n |-> 0, s |-> <<>>]
NumberValue(c) == [t |-> "number", n |-> c, s |-> <<>>]
StringValue(s) == [t |-> "string", n |-> 0, s |-> s]

Field(key, label, value, confidence) ==
    [key |-> key, label |-> label, value |-> value, confidence |-> confidence,
     source |-> [documentId |-> "", page |-> 1]]

(***************************************************************************)
(* TaxFormParser                                                           *)
(***************************************************************************)

parseCurrency(text) ==
    LET cleaned == RemoveChars(text, {"$", ","} \cup Whitespace)
        value == parseFloat(cleaned)
    IN IF value.nan THEN Null ELSE NumberValue(value.cents)

\* match[1]?.trim() || match[0]?.trim() || null; an absent group is <<>>.
parseText(match) ==
    IF Trim(match.m1) # <<>> THEN StringValue(Trim(match.m1))
    ELSE IF Trim(match.m0) # <<>> THEN StringValue(Trim(match.m0))
    ELSE Null

NineDigits == 9

\* (nine digits or more)
parseSSNAtLeastNine(text) ==
    LET cleaned == RemoveNonDigits(text)
    IN IF Len(cleaned) >= NineDigits THEN StringValue(cleaned) ELSE Null

parseSSN(text) ==
    LET cleaned == RemoveNonDigits(text)
    IN IF Len(cleaned) = NineDigits THEN StringValue(cleaned) ELSE Null

parseEIN(text) ==
    LET cleaned == RemoveNonDigits(text)
    IN IF Len(cleaned) = NineDigits THEN StringValue(cleaned) ELSE Null

\* The field patterns of the two parsers that use the inherited parseDocument.
\* Each has two regular expressions; validation names the predicate, if any.
Form1099INTParser_fieldPatterns ==
    << [key |-> "payerName", label |-> "Payer Name", patterns |-> 2,
        type |-> "text", validation |-> "none"],
       [key |-> "payerTIN", label |-> "Payer TIN", patterns |-> 2,
        type |-> "ein", validation |-> "none"],
       [key |-> "interestIncome", label |-> "Interest Income (Box 1)", patterns |-> 2,
        type |-> "currency", validation |-> "0..1000000"],
       [key |-> "earlyWithdrawalPenalty", label |-> "Early Withdrawal Penalty (Box 2)",
        patterns |-> 2, type |-> "currency", validation |-> "none"],
       [key |-> "federalTaxWithheld", label |-> "Federal Income Tax Withheld (Box 4)",
        patterns |-> 2, type |-> "currency", validation |-> "none"] >>

Form1099DIVParser_fieldPatterns ==
    << [key |-> "payerName", label |-> "Payer Name", patterns |-> 2,
        type |-> "text", validation |-> "none"],
       [key |-> "ordinaryDividends", label |-> "Ordinary Dividends (Box 1a)",
        patterns |-> 2, type |-> "currency", validation |-> "none"],
       [key |-> "qualifiedDividends", label |-> "Qualified Dividends (Box 1b)",
        patterns |-> 2, type |-> "currency", validation |-> "none"],
       [key |-> "capitalGainDistributions", label |-> "Capital Gain Distributions (Box 2a)",
        patterns |-> 2, type |-> "currency", validation |-> "none"],
       [key |-> "federalTaxWithheld", label |-> "Federal Income Tax Withheld (Box 4)",
        patterns |-> 2, type |-> "currency", validation |-> "none"] >>

fieldPatterns(formType) ==
    CASE formType = "1099_INT" -> Form1099INTParser_fieldPatterns
      [] formType = "1099_DIV" -> Form1099DIVParser_fieldPatterns
      [] OTHER -> <<>>

\* A recognized text is seen by a parser through the result of text.match for
\* each of its regular expressions.  When regular expression j of field
\* pattern i matches, the match is the one below: match[0] (m0) and the first
\* group (m1) of that expression on a line of such a form.
ExampleMatch(formType, i, j) ==
    CASE formType = "1099_INT" /\ i = 1 /\ j = 1 ->
           [m0 |-> <<"P", "a", "y", "e", "r", ":", " ", "F", "i", "r", "s", "t", " ", "N", "a", "t", "i", "o", "n", "a", "l", " ", "B", "a", "n", "k">>,
            m1 |-> <<"F", "i", "r", "s", "t", " ", "N", "a", "t", "i", "o", "n", "a", "l", " ", "B", "a", "n", "k">>]
      [] formType = "1099_INT" /\ i = 1 /\ j = 2 ->
           [m0 |-> <<"F", "i", "r", "s", "t", " ", "N", "a", "t", "i", "o", "n", "a", "l", " ", "B", "a", "n", "k">>,
            m1 |-> <<"F", "i", "r", "s", "t", " ", "N", "a", "t", "i", "o", "n", "a", "l", " ", "B", "a", "n", "k">>]
      [] formType = "1099_INT" /\ i = 2 /\ j = 1 ->
           [m0 |-> <<"T", "I", "N", ":", " ", "1", "2", "-", "3", "4", "5", "6", "7", "8", "9">>,
            m1 |-> <<"1", "2", "-", "3", "4", "5", "6", "7", "8", "9">>]
      [] formType = "1099_INT" /\ i = 2 /\ j = 2 ->
           [m0 |-> <<"T", "a", "x", " ", "I", "D", ":", " ", "1", "2", "-", "3", "4", "5", "6", "7", "8", "9">>,
            m1 |-> <<"1", "2", "-", "3", "4", "5", "6", "7", "8", "9">>]
      [] formType = "1099_INT" /\ i = 3 /\ j = 1 ->
           [m0 |-> <<"B", "o", "x", " ", "1", " ", "-", " ", "I", "n", "t", "e", "r", "e", "s", "t", " ", "i", "n", "c", "o", "m", "e", ":", " ", "$", "1", ",", "2", "5", "0", ".", "0", "0">>,
            m1 |-> <<"1", ",", "2", "5", "0", ".", "0", "0">>]
      [] formType = "1099_INT" /\ i = 3 /\ j = 2 ->
           [m0 |-> <<"I", "n", "t", "e", "r", "e", "s", "t", " ", "i", "n", "c", "o", "m", "e", ":", " ", "$", "1", ",", "2", "5", "0", ".", "0", "0">>,
            m1 |-> <<"1", ",", "2", "5", "0", ".", "0", "0">>]
      [] formType = "1099_INT" /\ i = 4 /\ j = 1 ->
           [m0 |-> <<"B", "o", "x", " ", "2", " ", "-", " ", "$", "2", "5", ".", "0", "0">>,
            m1 |-> <<"2", "5", ".", "0", "0">>]
      [] formType = "1099_INT" /\ i = 4 /\ j = 2 ->
           [m0 |-> <<"E", "a", "r", "l", "y", " ", "w", "i", "t", "h", "d", "r", "a", "w", "a", "l", " ", "p", "e", "n", "a", "l", "t", "y", ":", " ", "$", "2", "5", ".", "0", "0">>,
            m1 |-> <<"2", "5", ".", "0", "0">>]
      [] formType = "1099_INT" /\ i = 5 /\ j = 1 ->
           [m0 |-> <<"B", "o", "x", " ", "4", " ", "-", " ", "$", "1", "2", "5", ".", "0", "0">>,
            m1 |-> <<"1", "2", "5", ".", "0", "0">>]
      [] formType = "1099_INT" /\ i = 5 /\ j = 2 ->
           [m0 |-> <<"F", "e", "d", "e", "r", "a", "l", " ", "i", "n", "c", "o", "m", "e", " ", "t", "a", "x", " ", "w", "i", "t", "h", "h", "e", "l", "d", ":", " ", "$", "1", "2", "5", ".", "0", "0">>,
            m1 |-> <<"1", "2", "5", ".", "0", "0">>]
      [] formType = "1099_DIV" /\ i = 1 /\ j = 1 ->
           [m0 |-> <<"P", "a", "y", "e", "r", ":", " ", "A", "c", "m", "e", " ", "F", "u", "n", "d">>,
            m1 |-> <<"A", "c", "m", "e", " ", "F", "u", "n", "d">>]
      [] formType = "1099_DIV" /\ i = 1 /\ j = 2 ->
           [m0 |-> <<"A", "c", "m", "e", " ", "I", "n", "v", "e", "s", "t", "m", "e", "n", "t", " ", "F", "u", "n", "d">>,
            m1 |-> <<"A", "c", "m", "e", " ", "I", "n", "v", "e", "s", "t", "m", "e", "n", "t", " ", "F", "u", "n", "d">>]
      [] formType = "1099_DIV" /\ i = 2 /\ j = 1 ->
           [m0 |-> <<"B", "o", "x", " ", "1", "a", " ", "-", " ", "$", "3", "0", "0", ".", "0", "0">>,
            m1 |-> <<"3", "0", "0", ".", "0", "0">>]
      [] formType = "1099_DIV" /\ i = 2 /\ j = 2 ->
           [m0 |-> <<"O", "r", "d", "i", "n", "a", "r", "y", " ", "d", "i", "v", "i", "d", "e", "n", "d", "s", ":", " ", "$", "3", "0", "0", ".", "0", "0">>,
            m1 |-> <<"3", "0", "0", ".", "0", "0">>]
      [] formType = "1099_DIV" /\ i = 3 /\ j = 1 ->
           [m0 |-> <<"B", "o", "x", " ", "1", "b", " ", "-", " ", "$", "2", "0", "0", ".", "0", "0">>,
            m1 |-> <<"2", "0", "0", ".", "0", "0">>]
      [] formType = "1099_DIV" /\ i = 3 /\ j = 2 ->
           [m0 |-> <<"Q", "u", "a", "l", "i", "f", "i", "e", "d", " ", "d", "i", "v", "i", "d", "e", "n", "d", "s", ":", " ", "$", "2", "0", "0", ".", "0", "0">>,
            m1 |-> <<"2", "0", "0", ".", "0", "0">>]
      [] formType = "1099_DIV" /\ i = 4 /\ j = 1 ->
           [m0 |-> <<"B", "o", "x", " ", "2", "a", " ", "-", " ", "$", "1", "5", "0", ".", "0", "0">>,
            m1 |-> <<"1", "5", "0", ".", "0", "0">>]
      [] formType = "1099_DIV" /\ i = 4 /\ j = 2 ->
           [m0 |-> <<"C", "a", "p", "i", "t", "a", "l", " ", "g", "a", "i", "n", " ", "d", "i", "s", "t", "r", "i", "b", "u", "t", "i", "o", "n", "s", ":", " ", "$", "1", "5", "0", ".", "0", "0">>,
            m1 |-> <<"1", "5", "0", ".", "0", "0">>]
      [] formType = "1099_DIV" /\ i = 5 /\ j = 1 ->
           [m0 |-> <<"B", "o", "x", " ", "4", " ", "-", " ", "$", "1", "2", "5", ".", "0", "0">>,
            m1 |-> <<"1", "2", "5", ".", "0", "0">>]
      [] formType = "1099_DIV" /\ i = 5 /\ j = 2 ->
           [m0 |-> <<"F", "e", "d", "e", "r", "a", "l", " ", "i", "n", "c", "o", "m", "e", " ", "t", "a", "x", " ", "w", "i", "t", "h", "h", "e", "l", "d", ":", " ", "$", "1", "2", "5", ".", "0", "0">>,
            m1 |-> <<"1", "2", "5", ".", "0", "0">>]

MaxInterest == 1000000

validation(name, value) ==
    CASE name = "0..1000000" ->
           value.t = "number" /\ value.n >= 0 /\ value.n <= MaxInterest * 100
      [] OTHER -> TRUE

DefaultFieldConfidence == 8000

\* The switch on pattern.type, applied to a match.
CoerceMatch(type, match) ==
    CASE type = "currency" -> parseCurrency(match.m0)
      [] type = "text" -> parseText(match)
      [] type = "ssn" -> parseSSN(match.m0)
      [] type = "ein" -> parseEIN(match.m0)

\* The loop without the test for a null value.
RECURSIVE extractFieldFromKeepingNull(_, _, _, _)
extractFieldFromKeepingNull(formType, text, i, j) ==
    LET pattern == fieldPatterns(formType)[i]
    IN IF j > pattern.patterns THEN <<>>
       ELSE IF <<i, j>> \in text.matched[formType]
         THEN LET match == ExampleMatch(formType, i, j)
                  value == CoerceMatch(pattern.type, match)
              IN IF value = Null \/ validation(pattern.validation, value)
                   THEN << Field(pattern.key, pattern.label, value, DefaultFieldConfidence) >>
                   ELSE extractFieldFromKeepingNull(formType, text, i, j + 1)
         ELSE extractFieldFromKeepingNull(formType, text, i, j + 1)

\* The loop over pattern.patterns from expression j on; text.matched is the
\* set of <<i, j>> whose expression matches.  The result is <<>> for null.
\* The body of the loop for an expression that matches: the field made of
\* the match, <<>> when the value is null or fails the validation.
FieldOfMatch(pattern, match) ==
    LET value == CoerceMatch(pattern.type, match)
    IN IF value # Null /\ validation(pattern.validation, value)
         THEN << Field(pattern.key, pattern.label, value, DefaultFieldConfidence) >>
         ELSE <<>>

\* The loop in which a later expression that yields a field wins.
RECURSIVE extractFieldFromLastWins(_, _, _, _)
extractFieldFromLastWins(formType, text, i, j) ==
    LET pattern == fieldPatterns(formType)[i]
    IN IF j > pattern.patterns THEN <<>>
       ELSE LET later == extractFieldFromLastWins(formType, text, i, j + 1)
            IN IF later # <<>> THEN later
               ELSE IF <<i, j>> \in text.matched[formType]
                 THEN FieldOfMatch(pattern, ExampleMatch(formType, i, j))
                 ELSE <<>>

RECURSIVE extractFieldFrom(_, _, _, _)
extractFieldFrom(formType, text, i, j) ==
    LET pattern == fieldPatterns(formType)[i]
    IN IF j > pattern.patterns THEN <<>>
       ELSE IF <<i, j>> \in text.matched[formType]
         THEN LET found == FieldOfMatch(pattern, ExampleMatch(formType, i, j))
              IN IF found # <<>> THEN found
                 ELSE extractFieldFrom(formType, text, i, j + 1)
         ELSE extractFieldFrom(formType, text, i, j + 1)

extractField(formType, text, i) == extractFieldFrom(formType, text, i, 1)

\* Array.prototype.sort((a, b) => b - a) on numbers.
RECURSIVE InsertDesc(_, _)
InsertDesc(x, s) ==
    IF s = <<>> THEN <<x>>
    ELSE IF x > Head(s) THEN <<x>> \o s
    ELSE <<Head(s)>> \o InsertDesc(x, Tail(s))

RECURSIVE SortDesc(_)
SortDesc(s) == IF s = <<>> THEN <<>> ELSE InsertDesc(Head(s), SortDesc(Tail(s)))

MapSeq(s, Op(_)) == [k \in 1..Len(s) |-> Op(s[k])]

SmallAmount == 100
FallbackConfidence == 6000
MinCurrencyMatches == 2

\* TaxFormParser.postProcessFields: the currency fallback when no field was
\* found.  text.currency is the result of text.match(/\$[\d,]+\.?\d*/g).
postProcessFields(fields, text) ==
    IF Len(fields) = 0 /\ Len(text.currency) >= MinCurrencyMatches
      THEN LET parsed == MapSeq(text.currency,
                                LAMBDA m : parseFloat(RemoveChars(m, {"$", ","})))
               kept == SelectSeq(parsed, LAMBDA a : ~a.nan /\ a.cents > SmallAmount * 100)
               amounts == SortDesc(MapSeq(kept, LAMBDA a : a.cents))
           IN  (IF Len(amounts) >= 1
                  THEN << Field("wages", "Wages (Auto-detected)",
                                NumberValue(amounts[1]), FallbackConfidence) >>
                  ELSE <<>>)
               \o
               (IF Len(amounts) >= 2
                  THEN << Field("federalTaxWithheld", "Federal Tax Withheld (Auto-detected)",
                                NumberValue(amounts[2]), FallbackConfidence) >>
                  ELSE <<>>)
      ELSE fields

RECURSIVE ExtractAll(_, _, _)
ExtractAll(formType, text, i) ==
    IF i > Len(fieldPatterns(formType)) THEN <<>>
    ELSE extractField(formType, text, i) \o ExtractAll(formType, text, i + 1)

\* TaxFormParser.parseDocument, inherited by the 1099-INT and 1099-DIV parsers.
TaxFormParser_parseDocument(formType, text) ==
    postProcessFields(ExtractAll(formType, text, 1), text)

(***************************************************************************)
(* W2Parser and Form1099NECParser override parseDocument with fixed data   *)
(***************************************************************************)

S_UniversityOfPittsburgh == <<"U", "n", "i", "v", "e", "r", "s", "i", "t", "y", " ", "o", "f", " ", "P", "i", "t", "t", "s", "b", "u", "r", "g", "h">>
S_EmployerEIN == <<"2", "5", "-", "0", "9", "6", "5", "5", "9", "1">>
S_EmployeeName == <<"E", "l", "i", "z", "a", "b", "e", "t", "h", " ", "A", ".", " ", "D", "a", "r", "l", "i", "n", "g">>
S_CannonTools == <<"C", "a", "n", "n", "o", "n", " ", "T", "o", "o", "l", "s", " ", "C", "o">>
S_PayerTIN == <<"1", "0", "-", "9", "9", "2", "0", "2", "0", "2">>
S_PayerPhone == <<"(", "+", "1", ")", " ", "5", "1", "7", "-", "2", "0", "0", "-", "9", "9", "6", "8">>
S_PayerAddress == <<"2", "4", "2", "6", " ", "N", "o", "r", "t", "h", " ", "C", "a", "t", "h", "e", "r", "i", "n", "e", " ", "S", "t", ",", " ", "A", "t", "l", "a", "n", "t", "a", ",", " ", "G", "A", " ", "3", "0", "0", "1", "9">>
S_RecipientTIN == <<"1", "0", "1", "-", "4", "2", "-", "0", "2", "0", "2">>
S_AccountNumber == <<"0", "2", "0", "2", "0", "2", "0", "7", "0">>
S_Yes == <<"Y", "e", "s">>

HardcodedConfidence == 9900

W2Parser_parseDocument ==
    << Field("employerName", "Employer Name",
             StringValue(S_UniversityOfPittsburgh), HardcodedConfidence),
       Field("employerEIN", "Employer EIN",
             StringValue(S_EmployerEIN), HardcodedConfidence),
       Field("employeeName", "Employee Name",
             StringValue(S_EmployeeName), HardcodedConfidence),
       Field("wages", "Wages, Tips, Other Compensation (Box 1)",
             NumberValue(4462935), HardcodedConfidence),
       Field("federalTaxWithheld", "Federal Income Tax Withheld (Box 2)",
             NumberValue(763162), HardcodedConfidence),
       Field("socialSecurityWages", "Social Security Wages (Box 3)",
             NumberValue(4873635), HardcodedConfidence),
       Field("socialSecurityTax", "Social Security Tax Withheld (Box 4)",
             NumberValue(302165), HardcodedConfidence),
       Field("medicareWages", "Medicare Wages and Tips (Box 5)",
             NumberValue(4873635), HardcodedConfidence),
       Field("medicareTax", "Medicare Tax Withheld (Box 6)",
             NumberValue(70668), HardcodedConfidence),
       Field("nonqualifiedPlans", "Nonqualified Plans (Box 11)",
             NumberValue(100000), HardcodedConfidence),
       Field("stateWages", "State Wages (Box 16)",
             NumberValue(4780835), HardcodedConfidence),
       Field("stateTaxWithheld", "State Income Tax Withheld (Box 17)",
             NumberValue(146772), HardcodedConfidence),
       Field("localWages", "Local Wages (Box 18)",
             NumberValue(4780835), HardcodedConfidence),
       Field("localTaxWithheld", "Local Income Tax Withheld (Box 19)",
             NumberValue(69322), HardcodedConfidence) >>

Form1099NECParser_parseDocument ==
    << Field("payerName", "Payer Name",
             StringValue(S_CannonTools), HardcodedConfidence),
       Field("payerTIN", "Payer TIN",
             StringValue(S_PayerTIN), HardcodedConfidence),
       Field("payerPhone", "Payer Phone",
             StringValue(S_PayerPhone), HardcodedConfidence),
       Field("payerAddress", "Payer Address",
             StringValue(S_PayerAddress), HardcodedConfidence),
       Field("recipientTIN", "Recipient TIN",
             StringValue(S_RecipientTIN), HardcodedConfidence),
       Field("accountNumber", "Account Number",
             StringValue(S_AccountNumber), HardcodedConfidence),
       Field("nonemployeeCompensation", "Nonemployee Compensation (Box 1)",
             NumberValue(100000), HardcodedConfidence),
       Field("directSales", "Payer Made Direct Sales $5,000+ (Box 2)",
             StringValue(S_Yes), HardcodedConfidence),
       Field("federalTaxWithheld", "Federal Income Tax Withheld (Box 4)",
             NumberValue(10000), HardcodedConfidence) >>

\* fields.findIndex(f => f.key === key), 1-based; 0 when there is none.
RECURSIVE FindKeyFrom(_, _, _)
FindKeyFrom(fields, key, k) ==
    IF k > Len(fields) THEN 0
    ELSE IF fields[k].key = key THEN k
    ELSE FindKeyFrom(fields, key, k + 1)

CrossFieldPenalty == 4000
CrossFieldFloor == 3000

\* W2Parser.postProcessFields: the inherited fallback, then the check of the
\* federal tax withheld against half of the wages (both numbers, and neither
\* 0, where the condition is true).
W2Parser_postProcessFields(fields, text) ==
    LET fs == postProcessFields(fields, text)
        w == FindKeyFrom(fs, "wages", 1)
        t == FindKeyFrom(fs, "federalTaxWithheld", 1)
    IN IF /\ w # 0 /\ t # 0
          /\ fs[w].value.t = "number" /\ fs[w].value.n # 0
          /\ fs[t].value.t = "number" /\ fs[t].value.n # 0
          /\ 2 * fs[t].value.n > fs[w].value.n
         THEN [fs EXCEPT ![t] =
                  [@ EXCEPT !.confidence = Max(CrossFieldFloor, @ - CrossFieldPenalty),
                            !.label = @ \o " (Unusually High - Please Verify)"]]
         ELSE fs

\* createFormParser: the parser class for a document type, "null" for none.
createFormParser(docType) ==
    CASE docType = "W2" -> "W2Parser"
      [] docType = "1099_INT" -> "Form1099INTParser"
      [] docType = "1099_DIV" -> "Form1099DIVParser"
      [] docType = "1099_NEC" -> "Form1099NECParser"
      [] OTHER -> "null"

\* parser.parseDocument(ocrResult), dispatched on the parser's class.
parser_parseDocument(parser, ocrResult) ==
    CASE parser = "W2Parser" -> W2Parser_parseDocument
      [] parser = "Form1099NECParser" -> Form1099NECParser_parseDocument
      [] parser = "Form1099INTParser" -> TaxFormParser_parseDocument("1099_INT", ocrResult.text)
      [] parser = "Form1099DIVParser" -> TaxFormParser_parseDocument("1099_DIV", ocrResult.text)

(***************************************************************************)
(* DocumentParsingService                                                  *)
(***************************************************************************)

GenericAmountConfidence == 5000
GenericNameConfidence == 4000
MaxGenericNames == 3

WithDocumentId(field, documentId) ==
    [field EXCEPT !.source = [@ EXCEPT !.documentId = documentId]]

\* The amounts all under one key.
RECURSIVE GenericAmountsOneKey(_, _, _)
GenericAmountsOneKey(currencyMatches, documentId, k) ==
    IF k >= Len(currencyMatches) THEN <<>>
    ELSE LET match == currencyMatches[k + 1]
             value == parseFloat(RemoveChars(match, {"$", ","}))
             field == WithDocumentId(
                          Field("amount", "Amount " \o ToString(k + 1),
                                NumberValue(value.cents), GenericAmountConfidence),
                          documentId)
         IN (IF ~value.nan /\ value.cents > 0 THEN <<field>> ELSE <<>>)
            \o GenericAmountsOneKey(currencyMatches, documentId, k + 1)

\* The forEach over text.match(/\$[\d,]+\.?\d*/g), from 0-based index k on.
RECURSIVE GenericAmountsFrom(_, _, _)
GenericAmountsFrom(currencyMatches, documentId, k) ==
    IF k >= Len(currencyMatches) THEN <<>>
    ELSE LET match == currencyMatches[k + 1]
             value == parseFloat(RemoveChars(match, {"$", ","}))
             field == WithDocumentId(
                          Field("amount_" \o ToString(k), "Amount " \o ToString(k + 1),
                                NumberValue(value.cents), GenericAmountConfidence),
                          documentId)
         IN (IF ~value.nan /\ value.cents > 0 THEN <<field>> ELSE <<>>)
            \o GenericAmountsFrom(currencyMatches, documentId, k + 1)

\* The forEach over all of the name matches.
GenericNamesUnlimited(nameMatches, documentId) ==
    [k \in 1..Len(nameMatches) |->
        WithDocumentId(
            Field("name_" \o ToString(k - 1), "Name " \o ToString(k),
                  StringValue(Trim(nameMatches[k])), GenericNameConfidence),
            documentId)]

\* The forEach over the first three of text.match(/[A-Z][a-z]+(?:\s+[A-Z][a-z]+)+/g).
GenericNames(nameMatches, documentId) ==
    LET kept == SubSeq(nameMatches, 1, Min(MaxGenericNames, Len(nameMatches)))
    IN [k \in 1..Len(kept) |->
           WithDocumentId(
               Field("name_" \o ToString(k - 1), "Name " \o ToString(k),
                     StringValue(Trim(kept[k])), GenericNameConfidence),
               documentId)]

performGenericExtraction(ocrResult, documentId) ==
    GenericAmountsFrom(ocrResult.text.currency, documentId, 0)
    \o GenericNames(ocrResult.text.names, documentId)

NegativePenalty == 3000
OcrPenalty == 2000
GoodOcr == 8000
ReviewBelow == 7000
ConfidenceFloor == 1000

\* A callback that also rewards a good recognition.
validateAndEnhanceFieldRewarding(field, ocrResult) ==
    LET c1 == IF field.value.t = "number" /\ field.value.n < 0
                THEN Max(ConfidenceFloor, field.confidence - NegativePenalty)
                ELSE field.confidence
        c2 == IF ocrResult.confidence < GoodOcr
                THEN Max(ConfidenceFloor, c1 - OcrPenalty)
                ELSE c1 + OcrPenalty
    IN [field EXCEPT !.confidence = c2,
                     !.label = IF c2 < ReviewBelow THEN @ \o " (Needs Review)" ELSE @]

\* The callback of fields.map in validateAndEnhanceFields, statement by
\* statement: the penalty for a negative number,
penalizeNegative(field) ==
    IF field.value.t = "number" /\ field.value.n < 0
      THEN [field EXCEPT !.confidence = Max(ConfidenceFloor, @ - NegativePenalty)]
      ELSE field

\* (a penalty for the recognition that is never applied)
penalizeOcrNever(field, ocrResult) == field

\* (a penalty for the recognition without its floor)
penalizeOcrUnfloored(field, ocrResult) ==
    IF ocrResult.confidence < GoodOcr
      THEN [field EXCEPT !.confidence = @ - OcrPenalty]
      ELSE field

\* the penalty for a recognition below 0.8,
penalizeOcr(field, ocrResult) ==
    IF ocrResult.confidence < GoodOcr
      THEN [field EXCEPT !.confidence = Max(ConfidenceFloor, @ - OcrPenalty)]
      ELSE field

\* and the validation flag.
flagForReview(field) ==
    IF field.confidence < ReviewBelow
      THEN [field EXCEPT !.label = @ \o " (Needs Review)"]
      ELSE field

validateAndEnhanceField(field, ocrResult) ==
    flagForReview(penalizeOcr(penalizeNegative(field), ocrResult))

validateAndEnhanceFields(fields, ocrResult) ==
    [k \in 1..Len(fields) |-> validateAndEnhanceField(fields[k], ocrResult)]

CertainDetection == 8000

\* The forEach without the adjustment of the confidence.
StampWithoutDamp(field, documentId, detectionResult) == WithDocumentId(field, documentId)

\* The forEach without the assignment of the document id.
DampWithoutStamp(field, documentId, detectionResult) ==
    IF detectionResult.confidence < CertainDetection
      THEN [field EXCEPT !.confidence =
                Max(ConfidenceFloor, (@ * detectionResult.confidence) \div One)]
      ELSE field

\* The forEach over the parser's fields in parseDocument.
StampAndDamp(field, documentId, detectionResult) ==
    LET stamped == WithDocumentId(field, documentId)
    IN IF detectionResult.confidence < CertainDetection
         THEN [stamped EXCEPT !.confidence =
                   Max(ConfidenceFloor, (@ * detectionResult.confidence) \div One)]
         ELSE stamped

\* Thrown values: an Error with its message, or a value that is no Error.
Error(message) == [isError |-> TRUE, message |-> message]
NonError == [isError |-> FALSE, message |-> ""]

Fulfilled(value) == [status |-> "fulfilled", value |-> value, reason |-> NonError]
Rejected(reason) == [status |-> "rejected", value |-> <<>>, reason |-> reason]

\* A catch clause that drops what was thrown.
ParseFailedWithoutCause(error) == Error("Failed to parse document")

\* The catch clause of parseDocument.
ParseFailed(error) ==
    Error("Failed to parse document: "
          \o (IF error.isError THEN error.message ELSE "Unknown error"))

\* Steps 2 to 4 of parseDocument, run without suspension once extractText has
\* resolved with ocrResult.  A result whose text is not a string makes
\* text.toLowerCase() throw a TypeError.
parseRecognized(file, documentId, ocrResult) ==
    IF ~ocrResult.text.defined
      THEN Rejected(ParseFailed(
               Error("Cannot read properties of undefined (reading 'toLowerCase')")))
      ELSE
        LET detectionResult == detectDocumentType(file.name, ocrResult.text)
            parser == createFormParser(detectionResult.type)
            parsed == IF parser # "null"
                        THEN LET fs == parser_parseDocument(parser, ocrResult)
                             IN [k \in 1..Len(fs) |->
                                    StampAndDamp(fs[k], documentId, detectionResult)]
                        ELSE performGenericExtraction(ocrResult, documentId)
            fields == validateAndEnhanceFields(parsed, ocrResult)
        IN Fulfilled([documentId |-> documentId,
                      type |-> detectionResult.type,
                      fields |-> fields])

\* parseDocument from the point where the awaited extractText settles:
\* recognition is either [ok |-> TRUE, result |-> ocrResult] or
\* [ok |-> FALSE, thrown |-> the rejection].
parseDocumentSettle(file, documentId, recognition) ==
    IF recognition.ok
      THEN parseRecognized(file, documentId, recognition.result)
      ELSE Rejected(ParseFailed(recognition.thrown))

(***************************************************************************)
(* Inputs                                                                  *)
(***************************************************************************)

MaxMatchedPatterns == 2
MaxCurrencyMatches == 2
MaxNameMatches == 4

SeqsUpTo(S, n) == UNION {[1..k -> S] : k \in 0..n}

OnlyCandidate(i, n) == [k \in 1..NumCandidates |-> IF k = i THEN n ELSE 0]

PatternParsers == {"1099_INT", "1099_DIV"}

\* A text: the string where the code builds it, the content pattern counts,
\* per pattern parser the field expressions that match, and the results of
\* the two global matches of the fallback and generic extraction.
EmptyText ==
    [defined |-> TRUE, string |-> "", content |-> NoMatch,
     matched |-> [formType \in PatternParsers |-> {}],
     currency |-> <<>>, names |-> <<>>]

\* A text of which only the content matches matter.
TextOfContent(c) == [EmptyText EXCEPT !.content = c]

\* Substrings of the form /\$[\d,]+\.?\d*/ and /[A-Z][a-z]+(?:\s+[A-Z][a-z]+)+/.
CurrencyExamples ==
    { <<"$", ",">>,
      <<"$", "0", ".", "0", "0">>,
      <<"$", "5", "0", ".", "0", "0">>,
      <<"$", "1", "5", "0", ".", "2", "5">>,
      <<"$", "9", ",", "0", "0", "0">> }

NameExamples ==
    { <<"F", "i", "r", "s", "t", " ", "N", "a", "t", "i", "o", "n", "a", "l", " ", "B", "a", "n", "k">>,
      <<"J", "o", "h", "n", " ", "D", "o", "e">> }

PatternIds == {<<i, j>> : i \in 1..5, j \in 1..2}

MatchedSets == {S \in SUBSET PatternIds : Cardinality(S) <= MaxMatchedPatterns}

\* Filenames and texts in which the patterns of at most one table entry match.
DetectionCases ==
    {[filename |-> OnlyCandidate(i, f), content |-> OnlyCandidate(i, c)] :
        i \in 1..NumCandidates, f \in 0..2, c \in 0..1}

\* Texts differ in what the code reads of them once the type is detected:
\* the fixed-data parsers read nothing (the texts of a W-2 differ all the
\* same in the amounts printed on them), the pattern parsers read the field
\* matches and the currency substrings, the generic extraction reads the
\* currency and the name substrings.
MatchedSetsFor(type) ==
    IF type \in PatternParsers THEN MatchedSets ELSE {{}}

CurrencyMatchesFor(type) ==
    IF type = "1099_NEC" THEN {<<>>}
    ELSE SeqsUpTo(CurrencyExamples, MaxCurrencyMatches)

NameMatchesFor(type) ==
    IF type \in {"1098_E", "UNKNOWN"} THEN SeqsUpTo(NameExamples, MaxNameMatches)
    ELSE {<<>>}

OcrConfidences == {1000, 5000, 7500, 8000}

NoResult == [text |-> EmptyText, confidence |-> 0]

Resolved(ocrResult) == [ok |-> TRUE, result |-> ocrResult, thrown |-> NonError]
Thrown(error) == [ok |-> FALSE, result |-> NoResult, thrown |-> error]

(***************************************************************************)
(* Files and recognized texts of the batch model                           *)
(***************************************************************************)

\* The text of mockW2OCR, as the detector, the parsers and the generic
\* extraction see it.
mockW2Text ==
    [defined |-> TRUE, string |-> "",
     content |-> <<3, 0, 0, 0, 0>>,
     matched |-> [formType \in PatternParsers |->
                    IF formType = "1099_INT"
                      THEN {<<3, 1>>, <<4, 1>>, <<5, 1>>, <<5, 2>>}
                      ELSE {<<2, 1>>, <<5, 1>>, <<5, 2>>}],
     currency |->
       << <<"$", "4", "4", ",", "6", "2", "9", ".", "3", "5">>,
          <<"$", "7", ",", "6", "3", "1", ".", "6", "2">>,
          <<"$", "4", "8", ",", "7", "3", "6", ".", "3", "5">>,
          <<"$", "3", ",", "0", "2", "1", ".", "6", "5">>,
          <<"$", "4", "8", ",", "7", "3", "6", ".", "3", "5">>,
          <<"$", "7", "0", "6", ".", "6", "8">>,
          <<"$", "1", ",", "0", "0", "0", ".", "0", "0">>,
          <<"$", "4", ",", "1", "0", "7", ".", "0", "0">>,
          <<"$", "4", ",", "2", "1", "7", ".", "2", "7">>,
          <<"$", "1", ",", "5", "0", "0", ".", "0", "0">>,
          <<"$", "4", "7", ",", "8", "0", "8", ".", "3", "5">>,
          <<"$", "1", ",", "4", "6", "7", ".", "7", "2">>,
          <<"$", "4", "7", ",", "8", "0", "8", ".", "3", "5">>,
          <<"$", "6", "9", "3", ".", "2", "2">>,
          <<"$", "1", "6", "0", ".", "0", "0">>,
          <<"$", "5", "0", ".", "0", "0">>,
          <<"$", "2", "6", "0", ".", "0", "0">>,
          <<"$", "1", ",", "6", "0", "0", ".", "0", "0">> >>,
     names |->
       << <<"T", "a", "x", " ", "S", "t", "a", "t", "e", "m", "e", "n", "t">>,
          <<"E", "m", "p", "l", "o", "y", "e", "r", " ", "I", "n", "f", "o", "r", "m", "a", "t", "i", "o", "n">>,
          <<"E", "m", "p", "l", "o", "y", "e", "r", " ", "I", "d", "e", "n", "t", "i", "f", "i", "c", "a", "t", "i", "o", "n", " ", "N", "u", "m", "b", "e", "r">>,
          <<"E", "m", "p", "l", "o", "y", "e", "r", " ", "N", "a", "m", "e">>,
          <<"P", "i", "t", "t", "s", "b", "u", "r", "g", "h", "\n", " ", " ", " ", " ", " ", " ", " ", " ", "E", "m", "p", "l", "o", "y", "e", "r", " ", "A", "d", "d", "r", "e", "s", "s">>,
          <<"F", "i", "f", "t", "h", " ", "A", "v", "e", "n", "u", "e">>,
          <<"E", "m", "p", "l", "o", "y", "e", "e", " ", "I", "n", "f", "o", "r", "m", "a", "t", "i", "o", "n">>,
          <<"E", "m", "p", "l", "o", "y", "e", "e", " ", "N", "a", "m", "e">>,
          <<"D", "a", "r", "l", "i", "n", "g", "\n", " ", " ", " ", " ", " ", " ", " ", " ", "E", "m", "p", "l", "o", "y", "e", "e", " ", "A", "d", "d", "r", "e", "s", "s">>,
          <<"C", "a", "m", "p", "u", "s", " ", "D", "r", "i", "v", "e">>,
          <<"F", "e", "d", "e", "r", "a", "l", " ", "B", "o", "x", "e", "s">>,
          <<"S", "o", "c", "i", "a", "l", " ", "S", "e", "c", "u", "r", "i", "t", "y">>,
          <<"S", "o", "c", "i", "a", "l", " ", "S", "e", "c", "u", "r", "i", "t", "y">>,
          <<"N", "o", "\n", " ", " ", " ", " ", " ", " ", " ", " ", "R", "e", "t", "i", "r", "e", "m", "e", "n", "t">>,
          <<"Y", "e", "s", "\n", " ", " ", " ", " ", " ", " ", " ", " ", "T", "h", "i", "r", "d">>,
          <<"N", "o", "\n", " ", " ", " ", " ", " ", " ", " ", " ", "\n", " ", " ", " ", " ", " ", " ", " ", " ", "S", "t", "a", "t", "e", " ", "I", "n", "f", "o", "r", "m", "a", "t", "i", "o", "n">>,
          <<"E", "m", "p", "l", "o", "y", "e", "r", " ", "S", "t", "a", "t", "e">>,
          <<"L", "o", "c", "a", "l", " ", "I", "n", "f", "o", "r", "m", "a", "t", "i", "o", "n">>,
          <<"J", "o", "r", "d", "a", "n", " ", "T", "a", "x", " ", "S", "e", "r", "v", "i", "c", "e", "\n", " ", " ", " ", " ", " ", " ", " ", " ", "\n", " ", " ", " ", " ", " ", " ", " ", " ", "B", "o", "x">>,
          <<"B", "a", "s", "k", "e", "t", "b", "a", "l", "l", " ", "T", "i", "c", "k", "e", "t", "s">>,
          <<"I", "m", "p", "u", "t", "e", "d", " ", "I", "n", "c", "o", "m", "e">>,
          <<"N", "o", "n", "q", "u", "a", "l", "i", "f", "i", "e", "d", " ", "M", "o", "v", "i", "n", "g">> >>]

\* The text of mock1099OCR.
mock1099Text ==
    [defined |-> TRUE, string |-> "",
     content |-> <<0, 3, 0, 0, 0>>,
     matched |-> [formType \in PatternParsers |->
                    IF formType = "1099_INT"
                      THEN {<<1, 1>>, <<2, 1>>, <<3, 1>>, <<3, 2>>, <<5, 1>>, <<5, 2>>}
                      ELSE {<<1, 1>>, <<2, 1>>, <<5, 1>>, <<5, 2>>}],
     currency |->
       << <<"$", "1", ",", "2", "5", "0", ".", "0", "0">>,
          <<"$", "1", "2", "5", ".", "0", "0">> >>,
     names |->
       << <<"I", "n", "t", "e", "r", "e", "s", "t", " ", "I", "n", "c", "o", "m", "e">>,
          <<"F", "i", "r", "s", "t", " ", "N", "a", "t", "i", "o", "n", "a", "l", " ", "B", "a", "n", "k">>,
          <<"J", "o", "h", "n", " ", "D", "o", "e">> >>]

\* The text of mock1099NECR.
mock1099NECText ==
    [defined |-> TRUE, string |-> "",
     content |-> <<0, 0, 0, 2, 0>>,
     matched |-> [formType \in PatternParsers |->
                    IF formType = "1099_INT"
                      THEN {<<1, 1>>, <<2, 1>>, <<3, 1>>, <<4, 1>>, <<5, 1>>, <<5, 2>>}
                      ELSE {<<1, 1>>, <<2, 1>>, <<5, 1>>, <<5, 2>>}],
     currency |->
       << <<"$", "1", ",", "0", "0", "0", ".", "0", "0">>,
          <<"$", "5", ",", "0", "0", "0">>,
          <<"$", "1", "0", "0", ".", "0", "0">> >>,
     names |->
       << <<"N", "o", "n", "e", "m", "p", "l", "o", "y", "e", "e", " ", "C", "o", "m", "p", "e", "n", "s", "a", "t", "i", "o", "n">>,
          <<"P", "a", "y", "e", "r", " ", "I", "n", "f", "o", "r", "m", "a", "t", "i", "o", "n">>,
          <<"P", "a", "y", "e", "r", " ", "N", "a", "m", "e">>,
          <<"C", "a", "n", "n", "o", "n", " ", "T", "o", "o", "l", "s", " ", "C", "o", "\n", " ", " ", " ", " ", " ", " ", " ", " ", "P", "a", "y", "e", "r">>,
          <<"P", "a", "y", "e", "r", " ", "A", "d", "d", "r", "e", "s", "s">>,
          <<"N", "o", "r", "t", "h", " ", "C", "a", "t", "h", "e", "r", "i", "n", "e", " ", "S", "t">>,
          <<"R", "e", "c", "i", "p", "i", "e", "n", "t", " ", "I", "n", "f", "o", "r", "m", "a", "t", "i", "o", "n">>,
          <<"A", "c", "c", "o", "u", "n", "t", " ", "N", "u", "m", "b", "e", "r">>,
          <<"T", "a", "x", " ", "F", "i", "e", "l", "d", "s">>,
          <<"N", "o", "n", "e", "m", "p", "l", "o", "y", "e", "e", " ", "C", "o", "m", "p", "e", "n", "s", "a", "t", "i", "o", "n">>,
          <<"F", "e", "d", "e", "r", "a", "l", " ", "I", "n", "c", "o", "m", "e", " ", "T", "a", "x", " ", "W", "i", "t", "h", "h", "e", "l", "d">>,
          <<"S", "t", "a", "t", "e", " ", "I", "n", "f", "o", "r", "m", "a", "t", "i", "o", "n">> >>]

\* A text that is no tax form: "Receipt / John Doe / Total: $150.25 / Tip: $50.00".
receiptText ==
    [defined |-> TRUE, string |-> "",
     content |-> <<0, 0, 0, 0, 0>>,
     matched |-> [formType \in PatternParsers |->
                    IF formType = "1099_INT"
                      THEN {}
                      ELSE {}],
     currency |->
       << <<"$", "1", "5", "0", ".", "2", "5">>,
          <<"$", "5", "0", ".", "0", "0">> >>,
     names |->
       << <<"R", "e", "c", "e", "i", "p", "t", "\n", "J", "o", "h", "n", " ", "D", "o", "e", "\n", "T", "o", "t", "a", "l">> >>]

\* The files a caller hands in: the name as the detector sees it, the mock
\* result MockOCRProvider.extractText picks from the name, and the text a
\* recognition engine reads from the document.
FileCatalogue ==
    << [title |-> "w2_2024.pdf", name |-> OnlyCandidate(1, 1),
        mock |-> "W2", printed |-> mockW2Text],
       [title |-> "1099-int.pdf", name |-> OnlyCandidate(2, 1),
        mock |-> "1099", printed |-> mock1099Text],
       [title |-> "scan.pdf", name |-> NoMatch,
        mock |-> "W2", printed |-> receiptText] >>

Files == 1..Len(FileCatalogue)

MaxDocs == 3
MaxHybridDocs == 2

\* The batches handed in: n files of the catalogue in its cyclic order, from
\* any first file.
Batch(first, n) == [k \in 1..n |-> ((first + k - 2) % Len(FileCatalogue)) + 1]
Batches == {Batch(first, n) : first \in Files, n \in 0..MaxDocs}

DocumentId(i) == "doc-" \o ToString(i)

\* MockOCRProvider.extractText after its delay.
MockOCRProvider_extractText(file) ==
    CASE file.mock = "W2" -> [text |-> mockW2Text, confidence |-> 9500]
      [] file.mock = "1099" -> [text |-> mock1099Text, confidence |-> 8800]
      [] file.mock = "NEC" -> [text |-> mock1099NECText, confidence |-> 9500]

(***************************************************************************)
(* TesseractOCRProvider and HybridOCRProvider                              *)
(***************************************************************************)

InitializationFailed == Error("OCR initialization failed")
WorkerNotAvailable == Error("OCR worker not available")

\* The catch clause of TesseractOCRProvider.extractText.
TesseractFailure(error) ==
    Error("OCR processing failed: "
          \o (IF error.isError THEN error.message ELSE "Unknown error"))

\* Confidences a recognition of a document can come back with.
TesseractConfidences == {5000, 7000}
FallbackConfidences == {3000, 5000, 9000}

LowPrimary == 7000
DegradedConfidence == 1000

\* The catch clause of HybridOCRProvider.extractText.
HybridDegraded(file) ==
    [text |-> [EmptyText EXCEPT !.string =
                  "Unable to extract text from " \o file.title
                  \o ". Please verify the document is clear and readable."],
     confidence |-> DegradedConfidence]

\* The condition under which HybridOCRProvider calls the fallback provider.
HybridTriesFallback(ocrResult, fallback) ==
    ocrResult.confidence < LowPrimary /\ fallback # "none"

\* The fallback result always preferred.
HybridChooseFallback(fallbackResult, ocrResult) == fallbackResult

\* The result HybridOCRProvider returns when the fallback resolved.
HybridChoose(fallbackResult, ocrResult) ==
    IF fallbackResult.confidence > ocrResult.confidence THEN fallbackResult ELSE ocrResult

(***************************************************************************)
(* detectDocumentType on every filename and text                           *)
(***************************************************************************)

OffCls ==
    /\ clsPc = "off"
    /\ clsInput = [filename |-> NoMatch, content |-> NoMatch]
    /\ clsResult = [type |-> "UNKNOWN", confidence |-> 0]

OffDoc ==
    /\ docPc = "off"
    /\ docInput = [file |-> [name |-> NoMatch], documentId |-> "", recognition |-> Thrown(NonError)]
    /\ docResult = Rejected(NonError)

OffSys ==
    /\ hasWindow = FALSE
    /\ provider = "mock"
    /\ fallbackProvider = "none"
    /\ worker = "null"
    /\ creations = 0
    /\ term = "idle"
    /\ initCall = "idle"
    /\ files = <<>>
    /\ tasks = <<>>
    /\ batch = [pc |-> "idle", outcome |-> Rejected(NonError)]

IdleProc ==
    [pc |-> "idle", calls |-> 0, retries |-> 0, ids |-> {}, known |-> 0, docs |-> <<>>, k |-> 0,
     via |-> "mock", file |-> 0, settled |-> <<>>, newExtractions |-> <<>>,
     outcome |-> Rejected(NonError)]

OffSvc ==
    /\ documents = <<>>
    /\ uploadedFiles = <<>>
    /\ extractions = <<>>
    /\ proc = IdleProc

OffFld ==
    fieldCall = [pc |-> "off",
                 pattern |-> [key |-> "", label |-> "", patterns |-> 0,
                              type |-> "text", validation |-> "none"],
                 match |-> [m0 |-> <<>>, m1 |-> <<>>],
                 fields |-> <<>>]

OffAdj ==
    /\ adjPc = "off"
    /\ adjFields = <<>>
    /\ adjEnv = [created |-> <<>>,
                 detectionResult |-> [type |-> "UNKNOWN", confidence |-> 0],
                 ocrResult |-> [confidence |-> 0]]

InitCls ==
    /\ clsPc = "input"
    /\ clsInput \in [filename : FilenameProfiles, content : ContentProfiles]
    /\ clsResult = [type |-> "UNKNOWN", confidence |-> 0]
    /\ OffDoc
    /\ OffSys
    /\ OffSvc
    /\ OffFld
    /\ OffAdj

Classify ==
    /\ clsPc = "input"
    /\ clsPc' = "done"
    /\ clsResult' = detectDocumentType(clsInput.filename, TextOfContent(clsInput.content))
    /\ UNCHANGED <<clsInput, varsDoc, varsSys, varsSvc, varsAdj, varsFld>>

NextCls == Classify

SpecClassify == InitCls /\ [][NextCls]_vars

(***************************************************************************)
(* parseDocument on one document                                           *)
(***************************************************************************)

DocInput(case, recognition) ==
    [file |-> [name |-> case.filename], documentId |-> "doc-1", recognition |-> recognition]

\* What the awaited extractText can settle with: a result for a text, a
\* result without a text (a remote provider passing on a response that has
\* none), a rejection with an Error, a rejection with a value that is no
\* Error (GoogleVisionProvider.fileToBase64 rejects with the reader's event).
InitDoc ==
    /\ docPc = "input"
    /\ \E case \in DetectionCases :
         LET type == detectDocumentType(case.filename, TextOfContent(case.content)).type
         IN \/ \E c \in OcrConfidences, ms \in MatchedSetsFor(type),
                  cs \in CurrencyMatchesFor(type), ns \in NameMatchesFor(type) :
                 docInput = DocInput(case, Resolved(
                     [text |-> [TextOfContent(case.content) EXCEPT
                                   !.matched = [formType \in PatternParsers |->
                                                   IF formType = type THEN ms ELSE {}],
                                   !.currency = cs, !.names = ns],
                      confidence |-> c]))
            \/ \E c \in OcrConfidences :
                 docInput = DocInput(case, Resolved(
                     [text |-> [EmptyText EXCEPT !.defined = FALSE], confidence |-> c]))
            \/ docInput = DocInput(case, Thrown(Error("OCR processing failed")))
            \/ docInput = DocInput(case, Thrown(NonError))
    /\ docResult = Rejected(NonError)
    /\ OffCls
    /\ OffSys
    /\ OffSvc
    /\ OffFld
    /\ OffAdj

ParseDocument ==
    /\ docPc = "input"
    /\ docPc' = "done"
    /\ docResult' = parseDocumentSettle(docInput.file, docInput.documentId, docInput.recognition)
    /\ UNCHANGED <<docInput, varsCls, varsSys, varsSvc, varsAdj, varsFld>>

NextDoc == ParseDocument

SpecDoc == InitDoc /\ [][NextDoc]_vars

(***************************************************************************)
(* Properties of parseDocument and of the detector                         *)
(***************************************************************************)

\* C7: when the awaited recognition rejects, or a later step throws,
\* parseDocument rejects with an Error whose message is "Failed to parse
\* document: " followed by the message of the Error that was thrown
\* ("Unknown error" when the thrown value is no Error); it returns no
\* ExtractedDocument.
C7_FailureRethrown ==
    docPc = "done" =>
        LET recognition == docInput.recognition
            original ==
                IF ~recognition.ok THEN recognition.thrown
                ELSE Error("Cannot read properties of undefined (reading 'toLowerCase')")
        IN (~recognition.ok \/ ~recognition.result.text.defined) =>
               /\ docResult.status = "rejected"
               /\ docResult.value = <<>>
               /\ docResult.reason.isError
               /\ original.isError =>
                     docResult.reason.message
                        = "Failed to parse document: " \o original.message
               /\ ~original.isError =>
                     docResult.reason.message = "Failed to parse document: Unknown error"

\* The provider threw "OCR processing failed" and parseDocument rejected with
\* that message behind its prefix.
C7_Witness ==
    /\ docPc = "done"
    /\ docInput.recognition = Thrown(Error("OCR processing failed"))
    /\ docResult.status = "rejected"
    /\ docResult.reason.message = "Failed to parse document: OCR processing failed"

BestCandidateConfidence(filename, text) ==
    LET scores == {CandidateConfidence(i, filename, text) : i \in 1..NumCandidates}
    IN CHOOSE s \in scores : \A r \in scores : r <= s

\* C8: when the best candidate of the detector scores below 0.3 the result
\* is exactly (UNKNOWN, 0.1), and no type is returned with a confidence
\* below 0.3.
C8_ClassifierFloor ==
    clsPc = "done" =>
        /\ BestCandidateConfidence(clsInput.filename, TextOfContent(clsInput.content)) < 3000
              => clsResult = [type |-> "UNKNOWN", confidence |-> 1000]
        /\ clsResult.type # "UNKNOWN" => clsResult.confidence >= 3000

\* No pattern of any type matches: the best candidate scores 0 and the result
\* is (UNKNOWN, 0.1).
C8_Witness ==
    /\ clsPc = "done"
    /\ clsInput.filename = NoMatch
    /\ clsInput.content = NoMatch
    /\ clsResult = [type |-> "UNKNOWN", confidence |-> 1000]

\* C9: every field of a document that parseDocument returns has a confidence
\* between 0 and 1, and extractField gives for every field specification
\* either nothing or a field with a confidence between 0 and 1.
C9_ConfidenceInUnitInterval ==
    /\ (docPc = "done" /\ docResult.status = "fulfilled") =>
          \A k \in 1..Len(docResult.value.fields) :
              /\ docResult.value.fields[k].confidence >= 0
              /\ docResult.value.fields[k].confidence <= One
    /\ (docInput.recognition.ok /\ docInput.recognition.result.text.defined) =>
          \A formType \in PatternParsers :
              \A i \in 1..Len(fieldPatterns(formType)) :
                  LET found == extractField(formType, docInput.recognition.result.text, i)
                  IN found = <<>> \/ (found[1].confidence >= 0 /\ found[1].confidence <= One)

\* A field extracted at 0.8 from a weakly detected 1099-INT with a poor
\* recognition is returned at the floor of 0.1.
C9_Witness ==
    /\ docPc = "done"
    /\ docResult.status = "fulfilled"
    /\ docResult.value.type = "1099_INT"
    /\ extractField("1099_INT", docInput.recognition.result.text, 1) # <<>>
    /\ \E k \in 1..Len(docResult.value.fields) :
          docResult.value.fields[k].confidence = 1000

\* C10: the fields of a document that parseDocument returns have pairwise
\* distinct keys, whether they come from a parser's patterns, from its
\* fallback when no pattern matched, or from the generic extraction.
C10_DistinctKeys ==
    (docPc = "done" /\ docResult.status = "fulfilled") =>
        \A k, l \in 1..Len(docResult.value.fields) :
            docResult.value.fields[k].key = docResult.value.fields[l].key => k = l

\* No field pattern of the 1099-INT parser matched and its fallback returned
\* the two largest amounts as wages and federalTaxWithheld.
C10_Witness ==
    /\ docPc = "done"
    /\ docResult.status = "fulfilled"
    /\ docResult.value.type = "1099_INT"
    /\ docInput.recognition.result.text.matched["1099_INT"] = {}
    /\ Len(docResult.value.fields) = 2
    /\ docResult.value.fields[1].key = "wages"
    /\ docResult.value.fields[2].key = "federalTaxWithheld"

\* C11: every field of a document that parseDocument returns carries the
\* documentId the caller passed, in place of the empty string the parsers
\* put there, and so does the document itself.
C11_DocumentIdStamped ==
    (docPc = "done" /\ docResult.status = "fulfilled") =>
        /\ docResult.value.documentId = docInput.documentId
        /\ \A k \in 1..Len(docResult.value.fields) :
              /\ docResult.value.fields[k].source.documentId = docInput.documentId
              /\ docResult.value.fields[k].source.documentId # ""

\* The 1099-INT parser extracted the payer name with an empty documentId and
\* the returned field carries the caller's id.
C11_Witness ==
    /\ docPc = "done"
    /\ docResult.status = "fulfilled"
    /\ docResult.value.type = "1099_INT"
    /\ extractField("1099_INT", docInput.recognition.result.text, 1) # <<>>
    /\ extractField("1099_INT", docInput.recognition.result.text, 1)[1].source.documentId = ""
    /\ docResult.value.fields[1].key = "payerName"
    /\ docResult.value.fields[1].source.documentId = "doc-1"

\* C12: no field of a parser's output or of a returned document has the value
\* null: a match whose coercion or validation fails is left out, and the
\* document is still returned.
C12_NoNullValues ==
    /\ (docPc = "done" /\ docResult.status = "fulfilled") =>
          \A k \in 1..Len(docResult.value.fields) :
              docResult.value.fields[k].value.t # "null"
    /\ (docInput.recognition.ok /\ docInput.recognition.result.text.defined) =>
          /\ docPc = "done" => docResult.status = "fulfilled"
          /\ \A formType \in PatternParsers :
                LET out == TaxFormParser_parseDocument(
                               formType, docInput.recognition.result.text)
                IN \A k \in 1..Len(out) : out[k].value.t # "null"

\* The first expression for the interest income matched, its coercion gave
\* null, and the returned document has the payer name and no interest income.
C12_Witness ==
    /\ docPc = "done"
    /\ docResult.status = "fulfilled"
    /\ docResult.value.type = "1099_INT"
    /\ docInput.recognition.result.text.matched["1099_INT"] = {<<1, 1>>, <<3, 1>>}
    /\ CoerceMatch("currency", ExampleMatch("1099_INT", 3, 1)) = Null
    /\ Len(docResult.value.fields) = 1
    /\ docResult.value.fields[1].key = "payerName"

\* The expressions of field pattern i that match the text, by their places.
MatchingExpressions(formType, i) ==
    {j \in 1..fieldPatterns(formType)[i].patterns :
        <<i, j>> \in docInput.recognition.result.text.matched[formType]}

\* What the first matching expression of field pattern i yields: a field, or
\* <<>> when nothing matches or its value is rejected.
FirstMatchOutcome(formType, i) ==
    IF MatchingExpressions(formType, i) = {} THEN <<>>
    ELSE LET first == CHOOSE j \in MatchingExpressions(formType, i) :
                          \A other \in MatchingExpressions(formType, i) : j <= other
         IN FieldOfMatch(fieldPatterns(formType)[i], ExampleMatch(formType, i, first))

\* The fields of the returned document that field pattern i has made.
FieldsOfPattern(formType, i) ==
    SelectSeq(docResult.value.fields,
              LAMBDA f : /\ f.key = fieldPatterns(formType)[i].key
                         /\ f.label \in {fieldPatterns(formType)[i].label,
                                         fieldPatterns(formType)[i].label \o " (Needs Review)"})

C13_EveryTypeHasParser ==
    clsPc = "done" =>
        (createFormParser(clsResult.type) = "null" <=> clsResult.type = "UNKNOWN")

\* The classification of the document of the parseDocument call, and the
\* fields with the confidences they are created with.
Classification ==
    detectDocumentType(docInput.file.name, docInput.recognition.result.text)

HasParser == createFormParser(Classification.type) # "null"

CreatedFields ==
    IF HasParser
      THEN parser_parseDocument(createFormParser(Classification.type),
                                docInput.recognition.result)
      ELSE performGenericExtraction(docInput.recognition.result, docInput.documentId)

\* conf * c with floor 0.1 when c < 0.8, else conf.
Damped(conf, c) == IF c < 8000 THEN Max(1000, (conf * c) \div 10000) ELSE conf

\* The later adjustments: minus 0.3 for a negative number, minus 0.2 for a
\* recognition below 0.8, each with floor 0.1.
LaterAdjusted(conf, value, ocrConfidence) ==
    LET afterNegative == IF value.t = "number" /\ value.n < 0
                           THEN Max(1000, conf - 3000) ELSE conf
    IN IF ocrConfidence < 8000 THEN Max(1000, afterNegative - 2000) ELSE afterNegative

\* C17 as stated: in every returned document each field, from a parser or
\* from the generic extraction, has the confidence it was created with,
\* multiplied by the classification confidence c with floor 0.1 when c < 0.8,
\* and then adjusted by the later steps.
C17_EveryFieldDamped ==
    (docPc = "done" /\ docResult.status = "fulfilled") =>
        /\ Len(docResult.value.fields) = Len(CreatedFields)
        /\ \A k \in 1..Len(CreatedFields) :
              docResult.value.fields[k].confidence =
                  LaterAdjusted(Damped(CreatedFields[k].confidence, Classification.confidence),
                                CreatedFields[k].value,
                                docInput.recognition.result.confidence)

\* C17 amended: the fields of a type-specific parser are damped so; the fields
\* of the generic extraction, run when the classified type has no parser,
\* keep the confidence they were created with up to the later steps.
C17_ParserFieldsDamped ==
    (docPc = "done" /\ docResult.status = "fulfilled") =>
        /\ Len(docResult.value.fields) = Len(CreatedFields)
        /\ \A k \in 1..Len(CreatedFields) :
              docResult.value.fields[k].confidence =
                  LaterAdjusted(IF HasParser
                                  THEN Damped(CreatedFields[k].confidence,
                                              Classification.confidence)
                                  ELSE CreatedFields[k].confidence,
                                CreatedFields[k].value,
                                docInput.recognition.result.confidence)

\* A 1099-INT classified at 0.34 with a good recognition: the payer name,
\* created at 0.8, is returned at 0.272.
C17_Witness ==
    /\ docPc = "done"
    /\ docResult.status = "fulfilled"
    /\ Classification = [type |-> "1099_INT", confidence |-> 3400]
    /\ docInput.recognition.result.confidence = 8000
    /\ CreatedFields # <<>>
    /\ CreatedFields[1].key = "payerName"
    /\ CreatedFields[1].confidence = 8000
    /\ docResult.value.fields[1].confidence = 2720

\* The amounts above 100 among the currency substrings of the document's
\* text, in cents, largest first.
AmountsAboveNoise ==
    LET parsed == MapSeq(docInput.recognition.result.text.currency,
                         LAMBDA s : parseFloat(RemoveChars(s, {"$", ","})))
        kept == SelectSeq(parsed, LAMBDA a : ~a.nan /\ a.cents > 100 * 100)
    IN SortDesc(MapSeq(kept, LAMBDA a : a.cents))

\* No field pattern of the document's parser has yielded a field.
ParserYieldsNothing ==
    /\ Classification.type \in PatternParsers
    /\ ExtractAll(Classification.type, docInput.recognition.result.text, 1) = <<>>

\* C25: a returned document whose parser has yielded no field, or whose type
\* has no parser, has the largest amount above 100 of its text as 'wages'
\* and the second largest, if there is one, as 'federalTaxWithheld', both
\* created at 0.6, and this also when the text has one amount only.
C25_FallbackExtraction ==
    (docPc = "done" /\ docResult.status = "fulfilled"
                   /\ (ParserYieldsNothing \/ ~HasParser)) =>
        LET w == FindKeyFrom(docResult.value.fields, "wages", 1)
            t == FindKeyFrom(docResult.value.fields, "federalTaxWithheld", 1)
            created == IF HasParser THEN Damped(6000, Classification.confidence) ELSE 6000
        IN /\ Len(AmountsAboveNoise) >= 1 =>
                 /\ w # 0
                 /\ docResult.value.fields[w].value = NumberValue(AmountsAboveNoise[1])
                 /\ docResult.value.fields[w].confidence =
                        LaterAdjusted(created, docResult.value.fields[w].value,
                                      docInput.recognition.result.confidence)
           /\ Len(AmountsAboveNoise) >= 2 =>
                 /\ t # 0
                 /\ docResult.value.fields[t].value = NumberValue(AmountsAboveNoise[2])
                 /\ docResult.value.fields[t].confidence =
                        LaterAdjusted(created, docResult.value.fields[t].value,
                                      docInput.recognition.result.confidence)

\* The fields of the returned document that hold a name, and those that hold
\* an amount.
NameFields == SelectSeq(docResult.value.fields, LAMBDA f : f.value.t = "string")
AmountFields == SelectSeq(docResult.value.fields, LAMBDA f : f.value.t = "number")

\* The places (from 0) of the currency substrings that read as a number
\* above 0, in text order.
RECURSIVE PositiveAmountsFrom(_)
PositiveAmountsFrom(k) ==
    LET matches == docInput.recognition.result.text.currency
    IN IF k >= Len(matches) THEN <<>>
       ELSE LET value == parseFloat(RemoveChars(matches[k + 1], {"$", ","}))
            IN (IF ~value.nan /\ value.cents > 0 THEN <<k>> ELSE <<>>)
               \o PositiveAmountsFrom(k + 1)

\* A field as the generic extraction returns it: the caller's documentId,
\* the confidence it was created with less the later adjustments.
GenericField(f, created) ==
    /\ f.source.documentId = docInput.documentId
    /\ f.confidence = LaterAdjusted(created, f.value, docInput.recognition.result.confidence)

\* The name_N fields of a document without a parser: the first three names
\* of the text, in text order, created at 0.4.
GenericNamesAsStated ==
    /\ Len(NameFields) = Min(3, Len(docInput.recognition.result.text.names))
    /\ \A k \in 1..Len(NameFields) :
          /\ NameFields[k].key = "name_" \o ToString(k - 1)
          /\ NameFields[k].value = StringValue(Trim(docInput.recognition.result.text.names[k]))
          /\ GenericField(NameFields[k], 4000)

\* C26 as stated: a document without a parser has the first three names of
\* its text as name_N at 0.4 and one amount_N at 0.5 for every currency
\* substring of its text, all with the caller's documentId.
C26_AmountForEveryCurrency ==
    (docPc = "done" /\ docResult.status = "fulfilled" /\ ~HasParser) =>
        /\ GenericNamesAsStated
        /\ Len(AmountFields) = Len(docInput.recognition.result.text.currency)
        /\ \A k \in 1..Len(AmountFields) :
              /\ AmountFields[k].key = "amount_" \o ToString(k - 1)
              /\ GenericField(AmountFields[k], 5000)

\* C26: a document without a parser has the first three names of its text as
\* name_N at 0.4 and one amount_N at 0.5 for every currency substring that
\* reads as a number above 0, N being the place of the substring among all
\* currency substrings, all with the caller's documentId.
C26_AmountForEveryPositiveCurrency ==
    (docPc = "done" /\ docResult.status = "fulfilled" /\ ~HasParser) =>
        /\ GenericNamesAsStated
        /\ Len(AmountFields) = Len(PositiveAmountsFrom(0))
        /\ \A k \in 1..Len(AmountFields) :
              /\ AmountFields[k].key = "amount_" \o ToString(PositiveAmountsFrom(0)[k])
              /\ AmountFields[k].value.n > 0
              /\ GenericField(AmountFields[k], 5000)

\* Four names and the currency substrings "$0.00" and "$50.00" in a document
\* without a parser: three names, and amount_1 only.
C26_Witness ==
    /\ docPc = "done"
    /\ docResult.status = "fulfilled"
    /\ ~HasParser
    /\ Len(docInput.recognition.result.text.names) = 4
    /\ docInput.recognition.result.text.currency =
           << <<"$", "0", ".", "0", "0">>, <<"$", "5", "0", ".", "0", "0">> >>
    /\ Len(NameFields) = 3
    /\ Len(AmountFields) = 1
    /\ AmountFields[1].key = "amount_1"
    /\ AmountFields[1].value = NumberValue(5000)

\* The confidence of the k-th field before the source-quality step: as it was
\* created, damped where a parser created it, less 0.3 for a negative number.
BeforeSourceQuality(k) ==
    LET damped == IF HasParser
                    THEN Damped(CreatedFields[k].confidence, Classification.confidence)
                    ELSE CreatedFields[k].confidence
    IN IF CreatedFields[k].value.t = "number" /\ CreatedFields[k].value.n < 0
         THEN Max(1000, damped - 3000) ELSE damped

\* C19: when the recognition confidence is below 0.8 every field of the
\* returned document has lost 0.2, down to 0.1 at most; a field created at 0.8
\* in a document classified at 0.8 or more and recognized at 0.5 is returned
\* at 0.6 with " (Needs Review)" after its label.
C19_SourceQualityPenalty ==
    (docPc = "done" /\ docResult.status = "fulfilled") =>
        \A k \in 1..Len(docResult.value.fields) :
            LET field == docResult.value.fields[k]
            IN /\ docInput.recognition.result.confidence < 8000 =>
                     field.confidence = Max(1000, BeforeSourceQuality(k) - 2000)
               /\ ( /\ docInput.recognition.result.confidence = 5000
                    /\ Classification.confidence >= 8000
                    /\ CreatedFields[k].confidence = 8000 ) =>
                     /\ field.confidence = 6000
                     /\ field.label = CreatedFields[k].label \o " (Needs Review)"

\* A 1099-INT classified at 0.85 and recognized at 0.5: the payer name,
\* created at 0.8, is returned at 0.6 as "Payer Name (Needs Review)".
C19_Witness ==
    /\ docPc = "done"
    /\ docResult.status = "fulfilled"
    /\ Classification = [type |-> "1099_INT", confidence |-> 8500]
    /\ docInput.recognition.result.confidence = 5000
    /\ CreatedFields # <<>>
    /\ CreatedFields[1].confidence = 8000
    /\ docResult.value.fields[1].confidence = 6000
    /\ docResult.value.fields[1].label = "Payer Name (Needs Review)"

\* C18: in a returned W2 document whose federal tax withheld exceeds half of
\* its wages, the federalTaxWithheld field is flagged " (Unusually High -
\* Please Verify)" and its confidence was lowered by 0.4 with floor 0.3.  The
\* two values of a document are those W2Parser reads from its text, having no
\* field patterns: the largest and the second largest amount above 100.
C18_W2CrossFieldSanity ==
    (docPc = "done" /\ docResult.status = "fulfilled" /\ docResult.value.type = "W2") =>
        LET read == postProcessFields(<<>>, docInput.recognition.result.text)
            t == FindKeyFrom(docResult.value.fields, "federalTaxWithheld", 1)
        IN (Len(read) = 2 /\ 2 * read[2].value.n > read[1].value.n) =>
               /\ t # 0
               /\ docResult.value.fields[t].label \in
                      {label \o " (Unusually High - Please Verify)" \o review :
                           label \in {"Federal Income Tax Withheld (Box 2)",
                                      "Federal Tax Withheld (Auto-detected)"},
                           review \in {"", " (Needs Review)"}}
               /\ docResult.value.fields[t].confidence <= 9900 - 4000

\* min(1.0, 0.4 * filename matches + 0.6 * content matches) * baseConfidence
\* for table entry i and the arguments of the detectDocumentType call.
WeightedScore(i) ==
    (Min(10000, 4000 * clsInput.filename[i] + 6000 * clsInput.content[i])
         * documentTypePatterns[i].confidence) \div 10000

Matching == {i \in 1..NumCandidates : clsInput.filename[i] + clsInput.content[i] > 0}

\* C15: when a pattern of some candidate matches, the detector returns a
\* matching candidate together with its weighted score, and no matching
\* candidate has a higher one; a filename matching one W2 filename pattern
\* and a text matching no content pattern give (W2, 0.36).
C15_WeightedScore ==
    clsPc = "done" =>
        /\ Matching # {} =>
              /\ \E i \in Matching :
                    /\ clsResult.type = documentTypePatterns[i].type
                    /\ clsResult.confidence = WeightedScore(i)
              /\ \A i \in Matching : WeightedScore(i) <= clsResult.confidence
        /\ (clsInput.filename = OnlyCandidate(1, 1) /\ clsInput.content = NoMatch) =>
              clsResult = [type |-> "W2", confidence |-> 3600]

\* "w2_2024.pdf" with a text that matches no content pattern: (W2, 0.36).
C15_Witness ==
    /\ clsPc = "done"
    /\ clsInput.filename = FileCatalogue[1].name
    /\ FileCatalogue[1].title = "w2_2024.pdf"
    /\ clsInput.content = NoMatch
    /\ clsResult = [type |-> "W2", confidence |-> 3600]

\* C16: of the candidates that reach the highest score the detector returns
\* the one declared first in the table: every entry before the returned one
\* scores strictly less, every entry after it at most as much.
C16_FirstDeclaredWins ==
    (clsPc = "done" /\ clsResult.type # "UNKNOWN") =>
        \E r \in Matching :
            /\ clsResult.type = documentTypePatterns[r].type
            /\ \A j \in Matching : j < r => WeightedScore(j) < WeightedScore(r)
            /\ \A j \in Matching : j > r => WeightedScore(j) <= WeightedScore(r)

\* The 1099-INT, 1099-DIV and 1099-NEC entries all score 0.34 on the filename
\* and the first of them, 1099-INT, is returned.
C16_Witness ==
    /\ clsPc = "done"
    /\ clsInput.filename = <<0, 1, 1, 1, 0>>
    /\ clsInput.content = NoMatch
    /\ WeightedScore(2) = WeightedScore(3)
    /\ WeightedScore(3) = WeightedScore(4)
    /\ clsResult = [type |-> "1099_INT", confidence |-> 3400]

\* C27: the detector returns UNKNOWN exactly when no filename pattern and no
\* content pattern of the table matches; when one matches, the confidence it
\* returns is between 0.32 and 0.9.  It never returns a confidence strictly
\* between 0.1 and 0.3, nor one above 0.9.
C27_UnknownIffNothingMatches ==
    clsPc = "done" =>
        LET nothing == clsInput.filename = NoMatch /\ clsInput.content = NoMatch
        IN /\ clsResult.type = "UNKNOWN" <=> nothing
           /\ ~nothing => (clsResult.confidence >= 3200 /\ clsResult.confidence <= 9000)
           /\ ~(clsResult.confidence > 1000 /\ clsResult.confidence < 3000)
           /\ clsResult.confidence <= 9000

\* One filename pattern of the 1098-E entry and nothing else matches: the
\* lowest confidence of a classified document, 0.32.
C27_Witness ==
    /\ clsPc = "done"
    /\ clsInput.filename = OnlyCandidate(5, 1)
    /\ clsInput.content = NoMatch
    /\ clsResult = [type |-> "1098_E", confidence |-> 3200]

(***************************************************************************)
(* The service with its provider: batches of parseDocument calls           *)
(***************************************************************************)

IdleTask ==
    [pc |-> "idle", startedNull |-> FALSE, created |-> FALSE, usedWorker |-> FALSE,
     primary |-> Thrown(NonError), fallbackInvoked |-> FALSE, fallback |-> Thrown(NonError),
     ocr |-> Thrown(NonError), result |-> Rejected(NonError), order |-> 0]

FileOf(i) == FileCatalogue[files[i]]

\* The result of the fallback provider: an object of its own, told from the
\* primary result by its bounding boxes.
FallbackResult(file, c) ==
    [text |-> file.printed, confidence |-> c, boundingBoxes |-> "fallback"]

\* What extractText of the provider in use can settle with for a file.
Recognitions(file) ==
    {Resolved(MockOCRProvider_extractText(file)), Resolved(HybridDegraded(file))}
    \cup {Resolved(FallbackResult(file, c)) : c \in FallbackConfidences}
    \cup {Resolved([text |-> file.printed, confidence |-> c]) :
             c \in TesseractConfidences \cup FallbackConfidences}
    \cup {Thrown(TesseractFailure(error)) :
             error \in {InitializationFailed, WorkerNotAvailable,
                        Error("recognize failed"), NonError}}

\* parseDocument from its first await on, for every call of the batch model.
parseDocumentOf ==
    [f \in Files, i \in 1..MaxDocs |->
        [recognition \in Recognitions(FileCatalogue[f]) |->
            parseDocumentSettle(FileCatalogue[f], DocumentId(i), recognition)]]

\* parseDocument resumes with what the provider's extractText settled with;
\* order is the place of this call among the calls of the batch as they
\* settle.
Settle(task, i, recognition) ==
    [task EXCEPT !.pc = "settled",
                 !.ocr = recognition,
                 !.result = parseDocumentOf[files[i], i][recognition],
                 !.order = Cardinality({j \in 1..Len(tasks) : tasks[j].pc = "settled"}) + 1]

\* HybridOCRProvider.extractText without its outer catch.
AfterPrimaryPropagating(task, i, recognition) ==
    IF provider = "hybrid" /\ recognition.ok
          /\ HybridTriesFallback(recognition.result, fallbackProvider)
      THEN [task EXCEPT !.primary = recognition, !.pc = "fallback", !.fallbackInvoked = TRUE]
      ELSE Settle([task EXCEPT !.primary = recognition], i, recognition)

\* TesseractOCRProvider.extractText settled with `recognition`: its caller is
\* parseDocument itself, or HybridOCRProvider.extractText, which calls the
\* fallback provider, returns the primary result, or catches the failure.
AfterPrimary(task, i, recognition) ==
    IF provider = "hybrid" /\ recognition.ok
          /\ HybridTriesFallback(recognition.result, fallbackProvider)
      THEN [task EXCEPT !.primary = recognition, !.pc = "fallback", !.fallbackInvoked = TRUE]
      ELSE Settle([task EXCEPT !.primary = recognition], i,
                  IF provider = "hybrid" /\ ~recognition.ok
                    THEN Resolved(HybridDegraded(FileOf(i)))
                    ELSE recognition)

\* extractText without the call of initialize.
StartExtractNoInitialize ==
    IF provider = "mock" THEN [IdleTask EXCEPT !.pc = "mock"]
    ELSE IF worker = "null"
      THEN [IdleTask EXCEPT !.pc = "initDone", !.startedNull = TRUE]
      ELSE [IdleTask EXCEPT !.pc = "recognize", !.usedWorker = TRUE]

\* The synchronous start of extractText: with no worker it calls initialize,
\* which suspends on the import in a browser and returns at once elsewhere;
\* with a worker it calls worker.recognize.
StartExtract ==
    IF provider = "mock" THEN [IdleTask EXCEPT !.pc = "mock"]
    ELSE IF worker = "null"
      THEN [IdleTask EXCEPT !.pc = IF hasWindow THEN "init" ELSE "initDone",
                            !.startedNull = TRUE]
      ELSE [IdleTask EXCEPT !.pc = "recognize", !.usedWorker = TRUE]

\* Promise.all in place of Promise.allSettled: the first rejection rejects.
parseMultipleDocumentsFailFast(ts) ==
    LET rejected == SelectSeq(ts, LAMBDA t : t.result.status = "rejected")
    IN IF rejected # <<>>
         THEN Rejected(rejected[1].result.reason)
         ELSE Fulfilled([k \in 1..Len(ts) |-> ts[k].result.value])

\* The results in the order in which the calls settled.
parseMultipleDocumentsAsSettled(ts) ==
    LET byOrder == [o \in 1..Len(ts) |-> ts[CHOOSE j \in 1..Len(ts) : ts[j].order = o]]
        fulfilled == SelectSeq(byOrder, LAMBDA t : t.result.status = "fulfilled")
    IN Fulfilled([k \in 1..Len(fulfilled) |-> fulfilled[k].result.value])

\* parseMultipleDocuments: the results of Promise.allSettled, filtered to the
\* fulfilled and mapped to their values.
parseMultipleDocumentsSettle(ts) ==
    LET fulfilled == SelectSeq(ts, LAMBDA t : t.result.status = "fulfilled")
    IN Fulfilled([k \in 1..Len(fulfilled) |-> fulfilled[k].result.value])

NoBatch == [pc |-> "idle", outcome |-> Rejected(NonError)]

Init ==
    /\ hasWindow \in BOOLEAN
    /\ provider \in {"mock", "tesseract", "hybrid"}
    /\ fallbackProvider \in {"none", "aws"}
    /\ provider # "hybrid" => fallbackProvider = "none"
    /\ worker = "null"
    /\ creations = 0
    /\ term = "idle"
    /\ initCall = "idle"
    /\ files = <<>>
    /\ tasks = <<>>
    /\ batch = NoBatch
    /\ OffCls
    /\ OffDoc
    /\ OffSvc
    /\ OffFld
    /\ OffAdj

varsOther == <<varsCls, varsDoc, varsSvc, varsAdj, varsFld>>
varsEnv == <<hasWindow, provider, fallbackProvider>>

\* parseMultipleDocuments(files): every parseDocument runs to its first await.
BatchStart(fs) ==
    /\ batch.pc # "awaiting"
    /\ provider = "hybrid" => Len(fs) <= MaxHybridDocs
    /\ files' = fs
    /\ tasks' = [i \in 1..Len(fs) |-> StartExtract]
    /\ batch' = [NoBatch EXCEPT !.pc = "awaiting"]
    /\ UNCHANGED <<worker, creations, term, initCall, varsEnv, varsOther>>

\* The timer of MockOCRProvider fires.
MockDone(i) ==
    /\ tasks[i].pc = "mock"
    /\ tasks' = [tasks EXCEPT ![i] =
                    Settle(@, i, Resolved(MockOCRProvider_extractText(FileOf(i))))]
    /\ UNCHANGED <<worker, creations, term, initCall, files, batch, varsEnv, varsOther>>

\* initialize: the import and createWorker resolved, this.worker is assigned.
InitResolve(i) ==
    /\ tasks[i].pc = "init"
    /\ worker' = "worker"
    /\ creations' = creations + 1
    /\ tasks' = [tasks EXCEPT ![i] = [@ EXCEPT !.pc = "initDone", !.created = TRUE]]
    /\ UNCHANGED <<term, initCall, files, batch, varsEnv, varsOther>>

\* initialize: the import or createWorker threw; extractText rethrows.
InitReject(i) ==
    /\ tasks[i].pc = "init"
    /\ tasks' = [tasks EXCEPT ![i] =
                    AfterPrimary(@, i, Thrown(TesseractFailure(InitializationFailed)))]
    /\ UNCHANGED <<worker, creations, term, initCall, files, batch, varsEnv, varsOther>>

\* extractText resumes after await this.initialize(): the second check of
\* this.worker, then worker.recognize.
ExtractResume(i) ==
    /\ tasks[i].pc = "initDone"
    /\ tasks' = [tasks EXCEPT ![i] =
                    IF worker = "null"
                      THEN AfterPrimary(@, i, Thrown(TesseractFailure(WorkerNotAvailable)))
                      ELSE [@ EXCEPT !.pc = "recognize", !.usedWorker = TRUE]]
    /\ UNCHANGED <<worker, creations, term, initCall, files, batch, varsEnv, varsOther>>

\* worker.recognize resolved.
RecognizeResolve(i, c) ==
    /\ tasks[i].pc = "recognize"
    /\ tasks' = [tasks EXCEPT ![i] =
                    AfterPrimary(@, i, Resolved([text |-> FileOf(i).printed, confidence |-> c]))]
    /\ UNCHANGED <<worker, creations, term, initCall, files, batch, varsEnv, varsOther>>

\* worker.recognize rejected, with an Error or with a value that is none.
RecognizeReject(i, error) ==
    /\ tasks[i].pc = "recognize"
    /\ tasks' = [tasks EXCEPT ![i] = AfterPrimary(@, i, Thrown(TesseractFailure(error)))]
    /\ UNCHANGED <<worker, creations, term, initCall, files, batch, varsEnv, varsOther>>

\* worker.recognize never settles: nothing in the code bounds the wait.
RecognizeHang(i) ==
    /\ tasks[i].pc = "recognize"
    /\ tasks' = [tasks EXCEPT ![i] = [@ EXCEPT !.pc = "hung"]]
    /\ UNCHANGED <<worker, creations, term, initCall, files, batch, varsEnv, varsOther>>

\* The fallback provider resolved: the more confident result is returned.
FallbackResolve(i, c) ==
    /\ tasks[i].pc = "fallback"
    /\ LET fallbackResult == FallbackResult(FileOf(i), c)
       IN tasks' = [tasks EXCEPT ![i] =
                       Settle([@ EXCEPT !.fallback = Resolved(fallbackResult)], i,
                              Resolved(HybridChoose(fallbackResult, @.primary.result)))]
    /\ UNCHANGED <<worker, creations, term, initCall, files, batch, varsEnv, varsOther>>

\* The fallback provider threw, and the degraded result is returned.
FallbackRejectDegrading(i) ==
    /\ tasks[i].pc = "fallback"
    /\ tasks' = [tasks EXCEPT ![i] =
                    Settle([@ EXCEPT !.fallback = Thrown(Error("OCR processing failed"))], i,
                           Resolved(HybridDegraded(FileOf(i))))]
    /\ UNCHANGED <<worker, creations, term, initCall, files, batch, varsEnv, varsOther>>

\* The fallback provider threw: the primary result is returned.
FallbackReject(i) ==
    /\ tasks[i].pc = "fallback"
    /\ tasks' = [tasks EXCEPT ![i] =
                    Settle([@ EXCEPT !.fallback = Thrown(Error("OCR processing failed"))], i,
                           @.primary)]
    /\ UNCHANGED <<worker, creations, term, initCall, files, batch, varsEnv, varsOther>>

\* Promise.allSettled resolves once every parseDocument promise has settled.
BatchReturn ==
    /\ batch.pc = "awaiting"
    /\ \A i \in 1..Len(tasks) : tasks[i].pc = "settled"
    /\ batch' = [pc |-> "returned", outcome |-> parseMultipleDocumentsSettle(tasks)]
    /\ UNCHANGED <<worker, creations, term, initCall, files, tasks, varsEnv, varsOther>>

\* What terminate() leaves in this.worker.
AfterTerminate == "null"

\* terminate() with a worker: awaits worker.terminate().
TerminateCall ==
    /\ provider # "mock"
    /\ term # "awaiting"
    /\ worker # "null"
    /\ term' = "awaiting"
    /\ UNCHANGED <<worker, creations, initCall, files, tasks, batch, varsEnv, varsOther>>

\* terminate() without a worker returns at once.
TerminateNoWorker ==
    /\ provider # "mock"
    /\ term # "awaiting"
    /\ worker = "null"
    /\ term' = "returned"
    /\ UNCHANGED <<worker, creations, initCall, files, tasks, batch, varsEnv, varsOther>>

\* worker.terminate() settled (a rejection is caught): this.worker = null.
TerminateDone ==
    /\ term = "awaiting"
    /\ worker' = AfterTerminate
    /\ creations' = 0
    /\ term' = "returned"
    /\ UNCHANGED <<initCall, files, tasks, batch, varsEnv, varsOther>>

\* initialize() called by the provider's owner, in a browser.
InitializeCall ==
    /\ provider # "mock"
    /\ hasWindow
    /\ initCall = "idle"
    /\ initCall' = "creating"
    /\ UNCHANGED <<worker, creations, term, files, tasks, batch, varsEnv, varsOther>>

InitializeCallResolve ==
    /\ initCall = "creating"
    /\ worker' = "worker"
    /\ initCall' = "idle"
    /\ UNCHANGED <<creations, term, files, tasks, batch, varsEnv, varsOther>>

InitializeCallReject ==
    /\ initCall = "creating"
    /\ initCall' = "idle"
    /\ UNCHANGED <<worker, creations, term, files, tasks, batch, varsEnv, varsOther>>

\* The continuations of the i-th parseDocument call of the batch.
TaskStep(i) ==
    /\ i <= Len(tasks)
    /\ \/ MockDone(i)
       \/ InitResolve(i)
       \/ InitReject(i)
       \/ ExtractResume(i)
       \/ \E c \in TesseractConfidences : RecognizeResolve(i, c)
       \/ \E error \in {Error("recognize failed"), NonError} : RecognizeReject(i, error)
       \/ RecognizeHang(i)
       \/ \E c \in FallbackConfidences : FallbackResolve(i, c)
       \/ FallbackReject(i)

Next ==
    \/ \E fs \in Batches : BatchStart(fs)
    \/ \E i \in 1..MaxDocs : TaskStep(i)
    \/ BatchReturn
    \/ TerminateCall
    \/ TerminateNoWorker
    \/ TerminateDone
    \/ InitializeCall
    \/ InitializeCallResolve
    \/ InitializeCallReject

Spec == Init /\ [][Next]_vars

\* The event loop runs every continuation that is ready: that of a settled
\* promise, and that of the batch once all its promises have settled.
FairSpec ==
    /\ Spec
    /\ \A i \in 1..MaxDocs : WF_vars(TaskStep(i))
    /\ WF_vars(BatchReturn)

(***************************************************************************)
(* Properties of the batch, of the worker's lifecycle and of the hybrid    *)
(* provider                                                                *)
(***************************************************************************)

Settled(i) == tasks[i].pc = "settled"

\* C1: once parseMultipleDocuments has returned it has not thrown, and its
\* list holds exactly the ExtractedDocuments of the parseDocument calls that
\* fulfilled: every document whose recognition threw is omitted and every
\* document that parsed is present, once.
C1_BatchIsolation ==
    batch.pc = "returned" =>
        /\ batch.outcome.status = "fulfilled"
        /\ LET ok == {i \in 1..Len(tasks) : tasks[i].result.status = "fulfilled"}
               docs == batch.outcome.value
           IN /\ Len(docs) = Cardinality(ok)
              /\ \A i \in ok : \E k \in 1..Len(docs) : docs[k] = tasks[i].result.value
              /\ \A k \in 1..Len(docs) : \E i \in ok : docs[k].documentId = DocumentId(i)
              /\ \A i \in 1..Len(tasks) :
                    ~tasks[i].ocr.ok =>
                        \A k \in 1..Len(docs) : docs[k].documentId # DocumentId(i)

\* Three documents, the recognition of the second threw: two results, for the
\* first and the third.
C1_Witness ==
    /\ batch.pc = "returned"
    /\ Len(tasks) = 3
    /\ tasks[1].ocr.ok /\ ~tasks[2].ocr.ok /\ tasks[3].ocr.ok
    /\ batch.outcome.status = "fulfilled"
    /\ Len(batch.outcome.value) = 2
    /\ batch.outcome.value[1].documentId = DocumentId(1)
    /\ batch.outcome.value[2].documentId = DocumentId(3)

\* C2: a batch that parseMultipleDocuments is awaiting is eventually returned,
\* whether a document's recognition errors or never completes.
C2_BatchEventuallyReturns == (batch.pc = "awaiting") ~> (batch.pc = "returned")

\* C3: between terminations the extractText calls on one provider create at
\* most one worker, also when parseMultipleDocuments issues them concurrently
\* before the worker exists.
C3_WorkerCreatedOnce == creations <= 1

\* C4: an extractText call that found no worker recognizes only after it has
\* created one, and recognition is only ever started on an existing worker; in
\* a browser such a call fails for want of a worker only when its worker was
\* created and terminated in between; and every terminate call that returns
\* leaves the provider without a worker.
C4_LazyInitAndTerminate ==
    [][/\ \A i \in 1..Len(tasks') :
            LET t == tasks'[i]
            IN /\ (t.usedWorker /\ t.startedNull) => t.created
               /\ (t.pc = "recognize" /\ (i > Len(tasks) \/ tasks[i].pc # "recognize"))
                     => worker = "worker"
               /\ ( /\ hasWindow /\ t.startedNull
                    /\ t.primary = Thrown(TesseractFailure(WorkerNotAvailable)) )
                     => t.created
       /\ (term' = "returned" /\ term # "returned") => worker' = "null"
      ]_vars

\* After a terminate, a single extractText call that found no worker has
\* created one and recognizes with it.
C4_Witness ==
    /\ term = "returned"
    /\ Len(tasks) = 1
    /\ creations = 1
    /\ worker = "worker"
    /\ tasks[1].startedNull /\ tasks[1].created /\ tasks[1].usedWorker
    /\ tasks[1].pc = "recognize"

\* C5: a HybridOCRProvider.extractText call that has completed has returned a
\* result; when its primary provider failed, in initialization or in
\* recognition, the result is the placeholder text with confidence 0.1.
C5_HybridNeverPropagates ==
    provider = "hybrid" =>
        \A i \in 1..Len(tasks) :
            Settled(i) =>
                /\ tasks[i].ocr.ok
                /\ ~tasks[i].primary.ok =>
                      /\ tasks[i].ocr.result.confidence = 1000
                      /\ tasks[i].ocr.result.text.string =
                            "Unable to extract text from " \o FileOf(i).title
                            \o ". Please verify the document is clear and readable."
                      /\ tasks[i].result.status = "fulfilled"

\* One call whose primary failed in initialization and one whose recognition
\* threw, both completed with confidence 0.1.
C5_Witness ==
    /\ provider = "hybrid"
    /\ Len(tasks) = 2
    /\ Settled(1) /\ Settled(2)
    /\ tasks[1].primary = Thrown(TesseractFailure(InitializationFailed))
    /\ tasks[2].primary = Thrown(TesseractFailure(Error("recognize failed")))
    /\ tasks[1].ocr.result.confidence = 1000
    /\ tasks[2].ocr.result.confidence = 1000

\* C6: the hybrid provider invokes the secondary exactly when the primary
\* succeeded with confidence below 0.7 and a secondary is configured; when
\* both gave a result the returned one has the higher confidence; when the
\* secondary was not invoked the primary result is returned unchanged.
C6_HybridFallback ==
    provider = "hybrid" =>
        \A i \in 1..Len(tasks) :
            LET t == tasks[i]
            IN /\ t.pc \in {"fallback", "settled"} =>
                     (t.fallbackInvoked <=>
                         /\ t.primary.ok
                         /\ t.primary.result.confidence < 7000
                         /\ fallbackProvider # "none")
               /\ (Settled(i) /\ t.fallbackInvoked /\ t.fallback.ok) =>
                     /\ t.ocr \in {t.primary, t.fallback}
                     /\ t.ocr.result.confidence >= t.primary.result.confidence
                     /\ t.ocr.result.confidence >= t.fallback.result.confidence
               /\ (Settled(i) /\ t.primary.ok /\ ~t.fallbackInvoked) => t.ocr = t.primary

\* The secondary answered a low-confidence primary with a higher confidence
\* and its result was returned, while a primary at 0.7 was returned as it was.
C6_Witness ==
    /\ provider = "hybrid"
    /\ Len(tasks) = 2
    /\ Settled(1) /\ Settled(2)
    /\ tasks[1].primary.ok /\ tasks[1].primary.result.confidence = 5000
    /\ tasks[1].fallbackInvoked /\ tasks[1].fallback.ok
    /\ tasks[1].ocr = tasks[1].fallback
    /\ tasks[1].ocr.result.confidence = 9000
    /\ tasks[2].primary.ok /\ tasks[2].primary.result.confidence = 7000
    /\ ~tasks[2].fallbackInvoked
    /\ tasks[2].ocr = tasks[2].primary

\* The places in the input of the documents whose parseDocument fulfilled,
\* in input order.
FulfilledPlaces ==
    SelectSeq([i \in 1..Len(tasks) |-> i], LAMBDA i : tasks[i].result.status = "fulfilled")

\* C29: the list parseMultipleDocuments returns holds the documents that
\* parsed in the order of the input, one for each place of the input that
\* parsed, in whatever order the calls settled.
C29_InputOrderPreserved ==
    batch.pc = "returned" =>
        LET docs == batch.outcome.value
        IN /\ Len(docs) = Len(FulfilledPlaces)
           /\ \A k \in 1..Len(docs) :
                 /\ docs[k] = tasks[FulfilledPlaces[k]].result.value
                 /\ docs[k].documentId = DocumentId(FulfilledPlaces[k])
           /\ \A k, l \in 1..Len(docs) : k < l => FulfilledPlaces[k] < FulfilledPlaces[l]

\* Three documents whose calls settled third, second and first: the list has
\* them in the order of the input.
C29_Witness ==
    /\ batch.pc = "returned"
    /\ Len(tasks) = 3
    /\ tasks[1].order = 3 /\ tasks[2].order = 2 /\ tasks[3].order = 1
    /\ Len(batch.outcome.value) = 3
    /\ batch.outcome.value[1].documentId = DocumentId(1)
    /\ batch.outcome.value[2].documentId = DocumentId(2)
    /\ batch.outcome.value[3].documentId = DocumentId(3)

\* C28: when the primary result had a confidence below 0.7 and the secondary
\* provider threw, the hybrid provider returns the primary result, and
\* parseDocument goes on with it; when the secondary result has the same
\* confidence as the primary result, the primary result is returned.
C28_SecondaryFailureAbsorbed ==
    provider = "hybrid" =>
        \A i \in 1..Len(tasks) :
            LET t == tasks[i]
            IN (Settled(i) /\ t.fallbackInvoked) =>
                  /\ ~t.fallback.ok =>
                        /\ t.ocr = t.primary
                        /\ t.ocr.ok
                        /\ t.ocr.result.confidence < 7000
                        /\ t.ocr.result # HybridDegraded(FileOf(i))
                  /\ (t.fallback.ok
                        /\ t.fallback.result.confidence = t.primary.result.confidence) =>
                        /\ t.ocr = t.primary
                        /\ t.ocr # t.fallback

\* Of two documents recognized at 0.5, the secondary threw for the first and
\* answered at 0.5 for the second: both went on with the primary result.
C28_Witness ==
    /\ provider = "hybrid"
    /\ Len(tasks) = 2
    /\ Settled(1) /\ Settled(2)
    /\ tasks[1].primary.ok /\ tasks[1].primary.result.confidence = 5000
    /\ tasks[1].fallbackInvoked /\ ~tasks[1].fallback.ok
    /\ tasks[1].ocr = tasks[1].primary
    /\ tasks[2].primary.ok /\ tasks[2].primary.result.confidence = 5000
    /\ tasks[2].fallbackInvoked /\ tasks[2].fallback.ok
    /\ tasks[2].fallback.result.confidence = 5000
    /\ tasks[2].ocr = tasks[2].primary
    /\ tasks[2].ocr # tasks[2].fallback

(***************************************************************************)
(* MockTaxProcessingService: uploadDocuments and processDocuments          *)
(***************************************************************************)

MaxUploads == 2
MaxProcessCalls == 1
MaxRetries == 1

\* The ids Math.random().toString(36).substr(2, 9) gives: two draws can
\* coincide.  "zz" is an id no document has.
IdPool == {"a", "b"}
RequestedIds == SUBSET (IdPool \cup {"zz"})

\* filename.toLowerCase().includes(part), for the parts guessDocumentType
\* asks for.
LowerNameParts(title) ==
    CASE title = "w2_2024.pdf" -> {"w2"}
      [] title = "1099-int.pdf" -> {"1099", "int"}
      [] OTHER -> {}

guessDocumentType(parts) ==
    IF parts \cap {"w2", "w-2", "wage"} # {} THEN "W2"
    ELSE IF "1099" \in parts
      THEN IF parts \cap {"nec", "nonemployee"} # {} THEN "1099_NEC"
           ELSE IF parts \cap {"int", "interest"} # {} THEN "1099_INT"
           ELSE IF parts \cap {"div", "dividend"} # {} THEN "1099_DIV"
           ELSE "1099_NEC"
    ELSE IF parts \cap {"1098", "student"} # {} THEN "1098_E"
    ELSE IF parts \cap {"contractor", "freelance", "independent"} # {} THEN "1099_NEC"
    ELSE "W2"

createMockDocument(f, id) ==
    [id |-> id, file |-> f,
     type |-> guessDocumentType(LowerNameParts(FileCatalogue[f].title)),
     status |-> "UPLOADED"]

\* extractFieldsForDocument: the mock extraction for a document without a file.
extractFieldsForDocument(doc) ==
    [documentId |-> doc.id,
     type |-> doc.type,
     fields |->
       CASE doc.type = "W2" ->
              << WithDocumentId(Field("wages", "Wages & Salaries",
                                      NumberValue(7500000), 9500), doc.id),
                 WithDocumentId(Field("federal_tax_withheld", "Federal Tax Withheld",
                                      NumberValue(1500000), 9200), doc.id) >>
         [] doc.type = "1099_INT" ->
              << WithDocumentId(Field("interest_income", "Interest Income",
                                      NumberValue(120000), 8800), doc.id),
                 WithDocumentId(Field("tax_withheld", "Tax Withheld",
                                      NumberValue(24000), 8500), doc.id) >>
         [] OTHER -> <<>>]

S_FailedToParse == <<"F", "a", "i", "l", "e", "d", " ", "t", "o", " ", "p", "a", "r", "s", "e", " ", "d", "o", "c", "u", "m", "e", "n", "t">>

ErrorFieldConfidence == 1000

\* The extraction the catch clause of processDocuments pushes.
ErrorExtraction(doc) ==
    [documentId |-> doc.id,
     type |-> doc.type,
     fields |-> << WithDocumentId(Field("error", "Processing Error",
                                        StringValue(S_FailedToParse),
                                        ErrorFieldConfidence), doc.id) >>]

\* A catch clause that marks the document and pushes nothing.
processSettledDropping(doc, result) ==
    IF result.status = "fulfilled"
      THEN [doc |-> [doc EXCEPT !.status = "PARSED", !.type = result.value.type],
            pushed |-> <<result.value>>]
      ELSE [doc |-> [doc EXCEPT !.status = "ERROR"], pushed |-> <<>>]

\* The loop body of processDocuments from the point where the awaited
\* parseDocument settles: the rest of the try block, or the catch clause.
processSettled(doc, result) ==
    IF result.status = "fulfilled"
      THEN [doc |-> [doc EXCEPT !.status = "PARSED", !.type = result.value.type],
            pushed |-> <<result.value>>]
      ELSE [doc |-> [doc EXCEPT !.status = "ERROR"],
            pushed |-> <<ErrorExtraction(doc)>>]

\* What extractText of the service's provider can settle with for a file.
ExtractOutcomes(p, file) ==
    CASE p = "mock" -> {Resolved(MockOCRProvider_extractText(file))}
      [] p = "tesseract" ->
           {Resolved([text |-> file.printed, confidence |-> c]) : c \in TesseractConfidences}
           \cup {Thrown(TesseractFailure(error)) :
                    error \in {InitializationFailed, Error("recognize failed")}}
      [] p = "hybrid" ->
           {Resolved([text |-> file.printed, confidence |-> c]) : c \in TesseractConfidences}
           \cup {Resolved(HybridDegraded(file))}

\* The for-loop of processDocuments from docsToProcess[k] on, up to the next
\* document that has a file (whose parseDocument it awaits) or to the end.
RECURSIVE LoopFrom(_, _, _, _, _)
LoopFrom(docs, k, ds, acc, settled) ==
    IF k > Len(docs) \/ ds[docs[k]].id \in DOMAIN uploadedFiles
      THEN [k |-> k, documents |-> ds, newExtractions |-> acc, settled |-> settled]
      ELSE LoopFrom(docs, k + 1,
                    [ds EXCEPT ![docs[k]].status = "PARSED"],
                    Append(acc, extractFieldsForDocument(ds[docs[k]])),
                    Append(settled, Fulfilled(extractFieldsForDocument(ds[docs[k]]))))

\* The call runs on from a loop state: it awaits the next parseDocument, or
\* pushes its extractions and returns them.
ProcessContinue(call, loop) ==
    /\ documents' = loop.documents
    /\ IF loop.k > Len(call.docs)
         THEN /\ extractions' = extractions \o loop.newExtractions
              /\ proc' = [call EXCEPT !.pc = "returned", !.k = loop.k,
                                      !.settled = loop.settled,
                                      !.newExtractions = loop.newExtractions,
                                      !.outcome = Fulfilled(loop.newExtractions)]
         ELSE /\ extractions' = extractions
              /\ proc' = [call EXCEPT !.pc = "awaiting", !.k = loop.k,
                                      !.settled = loop.settled,
                                      !.newExtractions = loop.newExtractions,
                                      !.via = provider,
                                      !.file = uploadedFiles[loop.documents[call.docs[loop.k]].id]]

varsProviders == <<fallbackProvider, worker, creations, term, initCall, files, tasks, batch>>

InitSvc ==
    /\ hasWindow \in BOOLEAN
    /\ provider = "mock"
    /\ fallbackProvider = "none"
    /\ worker = "null"
    /\ creations = 0
    /\ term = "idle"
    /\ initCall = "idle"
    /\ files = <<>>
    /\ tasks = <<>>
    /\ batch = NoBatch
    /\ OffCls
    /\ OffDoc
    /\ OffSvc
    /\ OffFld
    /\ OffAdj

\* Map.prototype.set for every uploaded file, in order.
RECURSIVE SetAll(_, _, _)
SetAll(map, ids, fs) ==
    IF ids = <<>> THEN map
    ELSE SetAll([id \in DOMAIN map \cup {Head(ids)} |->
                    IF id = Head(ids) THEN Head(fs) ELSE map[id]],
                Tail(ids), Tail(fs))

\* uploadDocuments(files) after its delay; ids are the random ids drawn.
UploadDocuments(fs, ids) ==
    /\ Len(fs) = Len(ids)
    /\ Len(documents) + Len(fs) <= MaxUploads
    /\ documents' = documents \o [k \in 1..Len(fs) |-> createMockDocument(fs[k], ids[k])]
    /\ uploadedFiles' = SetAll(uploadedFiles, ids, fs)
    /\ UNCHANGED <<extractions, proc, hasWindow, provider, varsProviders, varsCls, varsDoc, varsAdj, varsFld>>

\* enableRealOCR(): new DocumentParsingService(true).
EnableRealOCR ==
    /\ provider' = IF hasWindow THEN "hybrid" ELSE "mock"
    /\ UNCHANGED <<varsSvc, hasWindow, varsProviders, varsCls, varsDoc, varsAdj, varsFld>>

\* getParsingService().setOCRProvider(provider).
SetOCRProvider(p) ==
    /\ provider' = p
    /\ UNCHANGED <<varsSvc, hasWindow, varsProviders, varsCls, varsDoc, varsAdj, varsFld>>

\* processDocuments(documentIds) is called (one call at a time) and awaits
\* its delay.
ProcessCall(ids) ==
    /\ proc.pc \in {"idle", "returned"}
    /\ proc.calls < MaxProcessCalls
    /\ proc' = [IdleProc EXCEPT !.pc = "delay", !.calls = proc.calls + 1, !.ids = ids]
    /\ UNCHANGED <<documents, uploadedFiles, extractions, hasWindow, provider,
                   varsProviders, varsCls, varsDoc, varsAdj, varsFld>>

\* The Retry button of a document in ERROR: handleProcessDocument calls
\* processDocuments([documentId]), which awaits its delay.
RetryParsing(id) ==
    /\ proc.pc = "returned"
    /\ proc.retries < MaxRetries
    /\ \E i \in 1..Len(documents) : documents[i].id = id /\ documents[i].status = "ERROR"
    /\ proc' = [IdleProc EXCEPT !.pc = "delay", !.calls = proc.calls,
                                !.retries = proc.retries + 1, !.ids = {id}]
    /\ UNCHANGED <<documents, uploadedFiles, extractions, hasWindow, provider,
                   varsProviders, varsCls, varsDoc, varsAdj, varsFld>>

\* The delay is over: docsToProcess is filtered and the loop starts.
ProcessResume ==
    /\ proc.pc = "delay"
    /\ LET docs == SelectSeq([i \in 1..Len(documents) |-> i],
                             LAMBDA i : documents[i].id \in proc.ids)
       IN ProcessContinue([proc EXCEPT !.docs = docs, !.known = Len(documents)],
                          LoopFrom(docs, 1, documents, <<>>, <<>>))
    /\ UNCHANGED <<uploadedFiles, hasWindow, provider, varsProviders, varsCls, varsDoc, varsAdj, varsFld>>

\* The awaited parseDocument settles and the loop runs on.
ParseSettle(recognition) ==
    /\ proc.pc = "awaiting"
    /\ recognition \in ExtractOutcomes(proc.via, FileCatalogue[proc.file])
    /\ LET d == proc.docs[proc.k]
           result == parseDocumentSettle(FileCatalogue[proc.file], documents[d].id,
                                         recognition)
           after == processSettled(documents[d], result)
       IN ProcessContinue(proc,
              LoopFrom(proc.docs, proc.k + 1,
                       [documents EXCEPT ![d] = after.doc],
                       proc.newExtractions \o after.pushed,
                       Append(proc.settled, result)))
    /\ UNCHANGED <<uploadedFiles, hasWindow, provider, varsProviders, varsCls, varsDoc, varsAdj, varsFld>>

NextSvc ==
    \/ \E n \in 1..MaxUploads : \E fs \in [1..n -> Files], ids \in [1..n -> IdPool] :
          UploadDocuments(fs, ids)
    \/ EnableRealOCR
    \/ \E p \in {"mock", "tesseract", "hybrid"} : SetOCRProvider(p)
    \/ \E ids \in RequestedIds : ProcessCall(ids)
    \/ \E id \in IdPool : RetryParsing(id)
    \/ ProcessResume
    \/ \E f \in Files, p \in {"mock", "tesseract", "hybrid"} :
          \E recognition \in ExtractOutcomes(p, FileCatalogue[f]) : ParseSettle(recognition)

SpecService == InitSvc /\ [][NextSvc]_vars

\* C14: a processDocuments call that has returned has not thrown and returns
\* one extraction for each document that was uploaded before the call read
\* the list (proc.known of them) and whose id was requested, in order: for a
\* document whose parseDocument fulfilled, the parsed extraction, and the
\* document is PARSED; for a document whose parseDocument rejected, an
\* extraction with the single field 'error' at confidence 0.1, and the
\* document is in ERROR; the documents after it are processed all the same.
C14_OneExtractionPerDocument ==
    proc.pc = "returned" =>
        /\ proc.outcome.status = "fulfilled"
        /\ Len(proc.outcome.value) = Len(proc.docs)
        /\ Len(proc.settled) = Len(proc.docs)
        /\ \A i \in 1..proc.known :
              documents[i].id \in proc.ids => \E k \in 1..Len(proc.docs) : proc.docs[k] = i
        /\ \A k \in 1..Len(proc.docs) :
              LET doc == documents[proc.docs[k]]
                  extraction == proc.outcome.value[k]
              IN /\ doc.id \in proc.ids
                 /\ \A l \in 1..Len(proc.docs) : proc.docs[l] = proc.docs[k] => l = k
                 /\ extraction.documentId = doc.id
                 /\ proc.settled[k].status = "fulfilled" =>
                       /\ doc.status = "PARSED"
                       /\ extraction = proc.settled[k].value
                 /\ proc.settled[k].status = "rejected" =>
                       /\ doc.status = "ERROR"
                       /\ Len(extraction.fields) = 1
                       /\ extraction.fields[1].key = "error"
                       /\ extraction.fields[1].confidence = 1000

\* Two documents were requested; parseDocument threw for the first, which is
\* in ERROR, and the second was parsed all the same.
C14_Witness ==
    /\ proc.pc = "returned"
    /\ Len(proc.docs) = 2
    /\ proc.settled[1].status = "rejected"
    /\ proc.settled[2].status = "fulfilled"
    /\ documents[proc.docs[1]].status = "ERROR"
    /\ documents[proc.docs[2]].status = "PARSED"
    /\ Len(proc.outcome.value) = 2
    /\ proc.outcome.value[1].fields[1].key = "error"
    /\ proc.outcome.value[2] = proc.settled[2].value


\* C30: whatever has been uploaded and processed, retries included, the
\* stored extractions hold at most one extraction for each document: no more
\* extractions carry an id than documents do.
C30_OneExtractionPerDocumentId ==
    \A id \in IdPool :
        Cardinality({k \in 1..Len(extractions) : extractions[k].documentId = id})
            <= Cardinality({i \in 1..Len(documents) : documents[i].id = id})

(***************************************************************************)
(* The adjustments of a W-2's wage and withholding fields, one at a time   *)
(***************************************************************************)

\* The confidences the parsers create fields with: the currency fallback,
\* a pattern without a confidence of its own, the fixed data.
CreatedConfidences == {FallbackConfidence, DefaultFieldConfidence, HardcodedConfidence}

\* Amounts in cents: wages, and withholdings below and above half of them.
WageAmounts == {0 - 100000, 100000}
WithheldAmounts == {0 - 20000, 20000, 90000}

\* What the detector returns for the filenames and texts of a W-2.
W2Detections ==
    {r \in {detectDocumentType(case.filename, TextOfContent(case.content)) :
                case \in DetectionCases} : r.type = "W2"}

InitAdj ==
    /\ adjPc = "created"
    /\ \E wc \in CreatedConfidences, tc \in CreatedConfidences,
          w \in WageAmounts, t \in WithheldAmounts :
         adjFields = << Field("wages", "Wages, tips, other compensation (Box 1)",
                              NumberValue(w), wc),
                        Field("federalTaxWithheld", "Federal Income Tax Withheld (Box 2)",
                              NumberValue(t), tc) >>
    /\ \E d \in W2Detections, c \in OcrConfidences :
         adjEnv = [created |-> adjFields, detectionResult |-> d,
                   ocrResult |-> [confidence |-> c]]
    /\ OffCls
    /\ OffDoc
    /\ OffSys
    /\ OffSvc
    /\ OffFld

\* W2Parser.postProcessFields on the fields found.
CrossCheck ==
    /\ adjPc = "created"
    /\ adjPc' = "checked"
    /\ adjFields' = W2Parser_postProcessFields(adjFields, EmptyText)
    /\ UNCHANGED <<adjEnv, varsCls, varsDoc, varsSys, varsSvc, varsFld>>

\* parseDocument's forEach over them.
Damp ==
    /\ adjPc = "checked"
    /\ adjPc' = "damped"
    /\ adjFields' = MapSeq(adjFields,
                           LAMBDA f : StampAndDamp(f, "doc-1", adjEnv.detectionResult))
    /\ UNCHANGED <<adjEnv, varsCls, varsDoc, varsSys, varsSvc, varsFld>>

\* validateAndEnhanceFields, statement by statement.
PenalizeNegative ==
    /\ adjPc = "damped"
    /\ adjPc' = "negative"
    /\ adjFields' = MapSeq(adjFields, penalizeNegative)
    /\ UNCHANGED <<adjEnv, varsCls, varsDoc, varsSys, varsSvc, varsFld>>

PenalizeOcr ==
    /\ adjPc = "negative"
    /\ adjPc' = "quality"
    /\ adjFields' = MapSeq(adjFields, LAMBDA f : penalizeOcr(f, adjEnv.ocrResult))
    /\ UNCHANGED <<adjEnv, varsCls, varsDoc, varsSys, varsSvc, varsFld>>

FlagForReview ==
    /\ adjPc = "quality"
    /\ adjPc' = "flagged"
    /\ adjFields' = MapSeq(adjFields, flagForReview)
    /\ UNCHANGED <<adjEnv, varsCls, varsDoc, varsSys, varsSvc, varsFld>>

\* validateAndEnhanceFields applied to the fields it has returned: it changes
\* the fields it is given in place and returns them.
Revalidate ==
    /\ adjPc = "flagged"
    /\ adjPc' = "revalidated"
    /\ adjFields' = validateAndEnhanceFields(adjFields, adjEnv.ocrResult)
    /\ UNCHANGED <<adjEnv, varsCls, varsDoc, varsSys, varsSvc, varsFld>>

NextAdj ==
    \/ CrossCheck
    \/ Damp
    \/ PenalizeNegative
    \/ PenalizeOcr
    \/ FlagForReview
    \/ Revalidate

SpecAdjust == InitAdj /\ [][NextAdj]_vars

\* The label of the k-th field before the review annotation.
LabelBeforeReview(k) == W2Parser_postProcessFields(adjEnv.created, EmptyText)[k].label

\* C21: once validated, and once validated again, a field's label carries
\* " (Needs Review)" exactly when its confidence is below 0.7, and once.
C21_ReviewAnnotationOnce ==
    adjPc \in {"flagged", "revalidated"} =>
        \A k \in 1..Len(adjFields) :
            adjFields[k].label =
                IF adjFields[k].confidence < 7000
                  THEN LabelBeforeReview(k) \o " (Needs Review)"
                  ELSE LabelBeforeReview(k)

\* C20: after every adjustment every confidence is within [0.1, 1.0], and a
\* confidence the cross-field check has lowered is 0.3 or more.
C20_FloorsAfterEachAdjustment ==
    adjPc # "off" =>
        \A k \in 1..Len(adjFields) :
            /\ adjFields[k].confidence >= 1000
            /\ adjFields[k].confidence <= One
            /\ (adjPc = "checked" /\ adjFields[k].confidence # adjEnv.created[k].confidence) =>
                   adjFields[k].confidence >= 3000

\* A withholding above half of the wages, created at 0.6: the cross-field
\* check has stopped at 0.3, and the later penalties at 0.1.
C20_Witness ==
    /\ adjPc = "quality"
    /\ adjEnv.created[2].confidence = 6000
    /\ adjEnv.detectionResult.confidence < 8000
    /\ adjEnv.ocrResult.confidence < 8000
    /\ adjFields[2].label = "Federal Income Tax Withheld (Box 2) (Unusually High - Please Verify)"
    /\ adjFields[2].confidence = 1000


(***************************************************************************)
(* extractField on one match of one field pattern                          *)
(***************************************************************************)

MaxIdLength == 11

\* A FieldPattern of type 'ssn', as a parser may declare one.
SsnFieldPattern ==
    [key |-> "ssn", label |-> "SSN", patterns |-> 1, type |-> "ssn", validation |-> "none"]

\* Matched texts for the 'ssn' and 'ein' types: digits and punctuation.
IdTexts ==
    SeqsUpTo({"1", "-"}, MaxIdLength)
        \cup { <<"1", "2", "3", "-", "4", "5", "-", "6", "7", "8", "9">>,
               <<"1", "2", "-", "3", "4", "5">> }

\* The match of /Box\s*1[^\$]*\$?([\d,]+\.?\d*)/i on "Box 1 - Wages... $44,629.35".
WagesMatch ==
    [m0 |-> <<"B", "o", "x", " ", "1", " ", "-", " ", "W", "a", "g", "e", "s", ".", ".", ".", " ", "$", "4", "4", ",", "6", "2", "9", ".", "3", "5">>,
     m1 |-> <<"4", "4", ",", "6", "2", "9", ".", "3", "5">>]

FieldMatches ==
    {[pattern |-> fieldPatterns(formType)[i], match |-> ExampleMatch(formType, i, j)] :
        formType \in PatternParsers, i \in 1..5, j \in 1..2}
    \cup {[pattern |-> Form1099INTParser_fieldPatterns[3], match |-> WagesMatch]}
    \cup {[pattern |-> pattern, match |-> [m0 |-> t, m1 |-> t]] :
             pattern \in {SsnFieldPattern, Form1099INTParser_fieldPatterns[2]}, t \in IdTexts}

InitFld ==
    /\ \E fm \in FieldMatches :
         fieldCall = [pc |-> "matched", pattern |-> fm.pattern, match |-> fm.match,
                      fields |-> <<>>]
    /\ OffCls
    /\ OffDoc
    /\ OffSys
    /\ OffSvc
    /\ OffAdj

ExtractFromMatch ==
    /\ fieldCall.pc = "matched"
    /\ fieldCall' = [fieldCall EXCEPT !.pc = "returned",
                                      !.fields = FieldOfMatch(fieldCall.pattern, fieldCall.match)]
    /\ UNCHANGED <<varsCls, varsDoc, varsSys, varsSvc, varsAdj>>

NextFld == ExtractFromMatch

SpecExtract == InitFld /\ [][NextFld]_vars

\* C22: the match of the Box 1 expression on "Box 1 - Wages... $44,629.35",
\* of type currency, yields a field with the value 44629.35.
C22_CurrencyOfMatchedCapture ==
    (fieldCall.pc = "returned" /\ fieldCall.pattern.type = "currency"
                              /\ fieldCall.match = WagesMatch) =>
        /\ Len(fieldCall.fields) = 1
        /\ fieldCall.fields[1].value = NumberValue(4462935)


\* The digits of the matched text, in order.
DigitsOfMatch == SelectSeq(fieldCall.match.m0, LAMBDA ch : ch \in Digits)

\* C24: a match of type ssn or ein yields a field exactly when nine digits
\* remain of it, with these digits as its value; any other match yields no
\* field.  "123-45-6789" gives "123456789" and "12-345" gives nothing.
C24_NineDigitsExactly ==
    (fieldCall.pc = "returned" /\ fieldCall.pattern.type \in {"ssn", "ein"}) =>
        /\ Len(DigitsOfMatch) = 9 =>
              /\ Len(fieldCall.fields) = 1
              /\ fieldCall.fields[1].key = fieldCall.pattern.key
              /\ fieldCall.fields[1].value = StringValue(DigitsOfMatch)
        /\ Len(DigitsOfMatch) # 9 => fieldCall.fields = <<>>
        /\ fieldCall.match.m0 = <<"1", "2", "3", "-", "4", "5", "-", "6", "7", "8", "9">> =>
              fieldCall.fields[1].value = StringValue(<<"1", "2", "3", "4", "5", "6", "7", "8", "9">>)
        /\ fieldCall.match.m0 = <<"1", "2", "-", "3", "4", "5">> => fieldCall.fields = <<>>

C24_Witness ==
    /\ fieldCall.pc = "returned"
    /\ fieldCall.pattern.type = "ssn"
    /\ fieldCall.match.m0 = <<"1", "2", "3", "-", "4", "5", "-", "6", "7", "8", "9">>
    /\ Len(fieldCall.fields) = 1
    /\ fieldCall.fields[1].value = StringValue(<<"1", "2", "3", "4", "5", "6", "7", "8", "9">>)

=============================================================================
